---------------------------- MODULE Spec2Model ----------------------------
(***************************************************************************)
(* State-machine model of the four ledger contracts of Credit_Chain_Pro:   *)
(*   FederatedLearningCoordinator  (src/unnamed/part_005)                  *)
(*   LenderPortal                  (src/unnamed/part_004)                  *)
(*   DataMarketplace               (src/contracts/DataMarketplace.sol)     *)
(*   CreditScoreRegistry           (src/contracts/DataMarketplace.sol)     *)
(* Every external call is one atomic step.  A call that reverts leaves the *)
(* ledger untouched: it is a stuttering step.  A committed call records     *)
(* its caller, arguments, events and return value in `last`.               *)
(* Record fields that are written and never read by any transition (the    *)
(* creation timestamps, names, descriptions) are left out of the state.    *)
(***************************************************************************)
EXTENDS Integers, Sequences, FiniteSets, TLC

\* ------------------------------------------------------------------ bounds
MaxRounds == 2          \* training rounds that may be started
MaxNowFL == 4           \* last block timestamp explored by the coordinator
MaxDuration == 1        \* largest round duration tried
InitMinStake == 1       \* constructor argument _minStakeAmount
MaxValidations == 2     \* successful validations explored per (round, node)
MaxProducts == 1        \* products that may be listed
MaxVersion == 2         \* score updates explored per identity
MaxNonce == 1           \* consent updates explored per identity
MaxNowCSR == 1          \* last block timestamp explored by the registry alone
MaxPeriods == 1         \* thirty-day periods the lender portal is followed for
MaxScoreUpdates == 1    \* score updates per borrower while the portal is followed
MaxSingles == 1         \* accepted submitCreditRequest calls explored
MaxBatches == 1         \* accepted submitBatchRequest calls explored
MaxSlashes == 6         \* validations per (round, node) while reputation is followed
MaxConsents == 2        \* consent updates per identity while consent is followed
MaxNowConsent == 3      \* last block timestamp explored while consent is followed
MaxDepth == 2           \* invocations that may be in flight at once
MaxNowReentry == 2      \* last block timestamp explored while calls in flight are followed
MaxReentryRequests == 2 \* credit requests accepted while calls in flight are followed
MaxLookupRequests == 2  \* credit requests decided while the registry's grants are varied
MaxLookupScores == 2    \* score updates while the registry's grants are varied
MaxIdRequests == 4      \* credit requests stored while the id counters are followed
MaxIdBatches == 3       \* batches stored while the id counters are followed
MaxIdPurchases == 2     \* purchases recorded while the id counters are followed

\* --------------------------------------------------------------- identities
ZERO == "0x0"                       \* address(0)
Admin == "admin"                    \* deployer of every contract
HASH == "h"                         \* some non-zero bytes32
HASH2 == "h2"                       \* another non-zero bytes32
ZEROHASH == "0"                     \* bytes32(0)
OK == "ok"

VARIABLES
    now,                \* block.timestamp of the next transaction
    last,               \* outcome of the most recent call
    \* FederatedLearningCoordinator
    flRoles, nodes, trainingRounds, models, modelUpdates,
    currentRound, totalRounds, minStakeAmount,
    validations,        \* ghost: successful validateModelUpdate calls per (round, node)
    \* DataMarketplace
    dmRoles, products, purchases, productReviews, userPurchases, sellerProducts,
    hasPurchased, nextProductId, nextPurchaseId, platformFeePercent, feeRecipient,
    \* CreditScoreRegistry
    csrRoles, paused, scores, scoreFactors, consents, lenderAccess, userNonces,
    \* LenderPortal
    lpRoles, lenders, creditRequests, apiAccess, batchRequests, lenderRequests,
    pendingApprovals, nextRequestId, nextBatchId, registrationFee, apiRequestFee,
    \* Calls in flight
    dmStatus,           \* ReentrancyGuard._status of the DataMarketplace
    frames              \* invocations waiting for an external call to return, innermost last

flVars == <<flRoles, nodes, trainingRounds, models, modelUpdates,
            currentRound, totalRounds, minStakeAmount, validations>>
dmVars == <<dmRoles, products, purchases, productReviews, userPurchases, sellerProducts,
            hasPurchased, nextProductId, nextPurchaseId, platformFeePercent, feeRecipient>>
csrVars == <<csrRoles, paused, scores, scoreFactors, consents, lenderAccess, userNonces>>
lpVars == <<lpRoles, lenders, creditRequests, apiAccess, batchRequests, lenderRequests,
            pendingApprovals, nextRequestId, nextBatchId, registrationFee, apiRequestFee>>
callVars == <<dmStatus, frames>>
vars == <<now, last, flVars, dmVars, csrVars, lpVars, callVars>>
\* What each contract's calls leave alone.
notFL == <<dmVars, csrVars, lpVars, callVars>>
notDM == <<flVars, csrVars, lpVars, callVars>>
notCSR == <<flVars, dmVars, lpVars, callVars>>
notLP == <<flVars, dmVars, csrVars, callVars>>

\* The record a committed call leaves behind.
Outcome(op, caller, args, events, ret) ==
    [op |-> op, caller |-> caller, args |-> args, events |-> events, ret |-> ret]

\* ====================================================================
\*  FederatedLearningCoordinator
\* ====================================================================
FLAddr == {Admin, "n1", "n2"}
FLRoleNames == {"DEFAULT_ADMIN_ROLE", "AGGREGATOR_ROLE", "VALIDATOR_ROLE"}
RoundIds == 0..(MaxRounds + 1)

EmptyUpdate ==
    [updateHash |-> ZEROHASH, node |-> ZERO, round |-> 0,
     isValidated |-> FALSE, stake |-> 0, gradientHash |-> ZEROHASH]
EmptyRound ==
    [roundId |-> 0, endTime |-> 0, minParticipants |-> 0,
     maxParticipants |-> 0, currentParticipants |-> 0, isActive |-> FALSE,
     rewardPool |-> 0, participants |-> {},
     updates |-> [a \in FLAddr |-> EmptyUpdate]]
EmptyModel ==
    [modelHash |-> ZEROHASH, round |-> 0, aggregator |-> ZERO,
     participantCount |-> 0, isActive |-> FALSE, accuracy |-> 0]
EmptyNode ==
    [nodeAddress |-> ZERO, reputation |-> 0, totalContributions |-> 0,
     successfulRounds |-> 0, totalRewards |-> 0, isActive |-> FALSE,
     lastActiveRound |-> 0]

FLInit ==
    /\ flRoles = [r \in FLRoleNames |->
                    IF r \in {"DEFAULT_ADMIN_ROLE", "AGGREGATOR_ROLE"} THEN {Admin} ELSE {}]
    /\ nodes = [a \in FLAddr |-> EmptyNode]
    /\ trainingRounds = [r \in RoundIds |-> EmptyRound]
    /\ models = [r \in RoundIds |-> EmptyModel]
    /\ modelUpdates = [a \in FLAddr |-> EmptyUpdate]
    /\ currentRound = 1
    /\ totalRounds = 0
    /\ minStakeAmount = InitMinStake
    /\ validations = [r \in RoundIds |-> [a \in FLAddr |-> 0]]

\* A reverted call: the ledger, and with it every variable, stays as it was.
Revert == UNCHANGED vars

\* AccessControl.grantRole, inherited: only the role's admin may grant.
flGrantRoleErr(caller, role, account) ==
    IF caller \notin flRoles["DEFAULT_ADMIN_ROLE"] THEN "AccessControl: missing role" ELSE OK

flGrantRole(caller, role, account) ==
    IF flGrantRoleErr(caller, role, account) # OK
    THEN Revert
    ELSE /\ flRoles' = [flRoles EXCEPT ![role] = @ \cup {account}]
         /\ last' = Outcome("flGrantRole", caller, <<role, account>>,
                            IF account \in flRoles[role] THEN <<>> ELSE <<"RoleGranted">>, 0)
         /\ UNCHANGED <<now, nodes, trainingRounds, models, modelUpdates,
                        currentRound, totalRounds, minStakeAmount, validations, notFL>>

registerNodeErr(caller) ==
    IF nodes[caller].isActive THEN "Node already registered" ELSE OK

registerNode(caller) ==
    IF registerNodeErr(caller) # OK
    THEN Revert
    ELSE /\ nodes' = [nodes EXCEPT ![caller] =
                        [nodeAddress |-> caller, reputation |-> 100,
                         totalContributions |-> 0, successfulRounds |-> 0,
                         totalRewards |-> 0, isActive |-> TRUE, lastActiveRound |-> 0]]
         /\ last' = Outcome("registerNode", caller, <<>>, <<"NodeRegistered">>, 0)
         /\ UNCHANGED <<now, flRoles, trainingRounds, models, modelUpdates,
                        currentRound, totalRounds, minStakeAmount, validations, notFL>>

\* A coordinator that opens a round without asking whether one is open already.
startTrainingRoundErrNoOpenCheck(caller, duration, minParticipants, maxParticipants, rewardPool, tokenOk) ==
    IF caller \notin flRoles["AGGREGATOR_ROLE"] THEN "AccessControl: missing role"
    ELSE IF ~(duration > 0) THEN "Invalid duration"
    ELSE IF ~(minParticipants > 0 /\ maxParticipants >= minParticipants)
         THEN "Invalid participant limits"
    ELSE IF rewardPool > 0 /\ ~tokenOk THEN "ERC20: transferFrom reverted"
    ELSE OK

\* tokenOk: whether the reward token's transferFrom returns instead of reverting.
startTrainingRoundErr(caller, duration, minParticipants, maxParticipants, rewardPool, tokenOk) ==
    IF caller \notin flRoles["AGGREGATOR_ROLE"] THEN "AccessControl: missing role"
    ELSE IF trainingRounds[currentRound].isActive THEN "Round already active"
    ELSE IF ~(duration > 0) THEN "Invalid duration"
    ELSE IF ~(minParticipants > 0 /\ maxParticipants >= minParticipants)
         THEN "Invalid participant limits"
    ELSE IF rewardPool > 0 /\ ~tokenOk THEN "ERC20: transferFrom reverted"
    ELSE OK

startTrainingRound(caller, duration, minParticipants, maxParticipants, rewardPool, tokenOk) ==
    IF startTrainingRoundErr(caller, duration, minParticipants, maxParticipants,
                             rewardPool, tokenOk) # OK
    THEN Revert
    ELSE /\ trainingRounds' = [trainingRounds EXCEPT ![currentRound] =
                 [@ EXCEPT !.roundId = currentRound,
                           !.endTime = now + duration,
                           !.minParticipants = minParticipants,
                           !.maxParticipants = maxParticipants,
                           !.currentParticipants = 0,
                           !.isActive = TRUE,
                           !.rewardPool = rewardPool]]
         /\ last' = Outcome("startTrainingRound", caller,
                            <<duration, minParticipants, maxParticipants, rewardPool>>,
                            <<"TrainingRoundStarted">>, 0)
         /\ UNCHANGED <<now, flRoles, nodes, models, modelUpdates,
                        currentRound, totalRounds, minStakeAmount, validations, notFL>>

\* A coordinator that lets a node submit again in a round it already joined.
submitModelUpdateErrNoRepeatCheck(caller, updateHash, gradientHash, value) ==
    LET round == trainingRounds[currentRound]
    IN IF ~nodes[caller].isActive THEN "Node not registered"
       ELSE IF updateHash = ZEROHASH THEN "Invalid update hash"
       ELSE IF gradientHash = ZEROHASH THEN "Invalid gradient hash"
       ELSE IF ~round.isActive THEN "No active training round"
       ELSE IF ~(now <= round.endTime) THEN "Training round ended"
       ELSE IF ~(round.currentParticipants < round.maxParticipants) THEN "Round is full"
       ELSE IF ~(value >= minStakeAmount) THEN "Insufficient stake"
       ELSE OK

\* A coordinator that takes an update without asking whether the round is full.
submitModelUpdateErrNoFullCheck(caller, updateHash, gradientHash, value) ==
    LET round == trainingRounds[currentRound]
    IN IF ~nodes[caller].isActive THEN "Node not registered"
       ELSE IF updateHash = ZEROHASH THEN "Invalid update hash"
       ELSE IF gradientHash = ZEROHASH THEN "Invalid gradient hash"
       ELSE IF ~round.isActive THEN "No active training round"
       ELSE IF ~(now <= round.endTime) THEN "Training round ended"
       ELSE IF caller \in round.participants THEN "Already participated in this round"
       ELSE IF ~(value >= minStakeAmount) THEN "Insufficient stake"
       ELSE OK


\* A coordinator that takes an update after the round's end time.
submitModelUpdateErrNoDeadline(caller, updateHash, gradientHash, value) ==
    LET round == trainingRounds[currentRound]
    IN IF ~nodes[caller].isActive THEN "Node not registered"
       ELSE IF updateHash = ZEROHASH THEN "Invalid update hash"
       ELSE IF gradientHash = ZEROHASH THEN "Invalid gradient hash"
       ELSE IF ~round.isActive THEN "No active training round"
       ELSE IF caller \in round.participants THEN "Already participated in this round"
       ELSE IF ~(round.currentParticipants < round.maxParticipants) THEN "Round is full"
       ELSE IF ~(value >= minStakeAmount) THEN "Insufficient stake"
       ELSE OK

submitModelUpdateErr(caller, updateHash, gradientHash, value) ==
    LET round == trainingRounds[currentRound]
    IN IF ~nodes[caller].isActive THEN "Node not registered"
       ELSE IF updateHash = ZEROHASH THEN "Invalid update hash"
       ELSE IF gradientHash = ZEROHASH THEN "Invalid gradient hash"
       ELSE IF ~round.isActive THEN "No active training round"
       ELSE IF ~(now <= round.endTime) THEN "Training round ended"
       ELSE IF caller \in round.participants THEN "Already participated in this round"
       ELSE IF ~(round.currentParticipants < round.maxParticipants) THEN "Round is full"
       ELSE IF ~(value >= minStakeAmount) THEN "Insufficient stake"
       ELSE OK

submitModelUpdate(caller, updateHash, gradientHash, value) ==
    LET update == [updateHash |-> updateHash, node |-> caller,
                   round |-> currentRound, isValidated |-> FALSE, stake |-> value,
                   gradientHash |-> gradientHash]
    IN IF submitModelUpdateErr(caller, updateHash, gradientHash, value) # OK
       THEN Revert
       ELSE /\ trainingRounds' = [trainingRounds EXCEPT ![currentRound] =
                    [@ EXCEPT !.participants = @ \cup {caller},
                              !.currentParticipants = @ + 1,
                              !.updates = [@ EXCEPT ![caller] = update]]]
            /\ modelUpdates' = [modelUpdates EXCEPT ![caller] = update]
            /\ nodes' = [nodes EXCEPT ![caller] =
                    [@ EXCEPT !.totalContributions = @ + 1,
                              !.lastActiveRound = currentRound]]
            /\ last' = Outcome("submitModelUpdate", caller,
                               <<updateHash, gradientHash, value>>,
                               <<"ModelUpdateSubmitted">>, 0)
            /\ UNCHANGED <<now, flRoles, models, currentRound, totalRounds,
                           minStakeAmount, validations, notFL>>

validateModelUpdateErr(caller, node, isValid) ==
    LET round == trainingRounds[currentRound]
    IN IF caller \notin flRoles["VALIDATOR_ROLE"] THEN "AccessControl: missing role"
       ELSE IF node \notin round.participants THEN "Node did not participate"
       ELSE IF round.updates[node].isValidated THEN "Already validated"
       ELSE OK

\* The accepting branch: the update is marked validated, reputation + 10.
ValidateAccept(round, node) ==
    /\ trainingRounds' = [trainingRounds EXCEPT ![round].updates[node].isValidated = TRUE]
    /\ nodes' = [nodes EXCEPT ![node].reputation = @ + 10]


\* A coordinator that subtracts the penalty without asking what is left.
ValidateRejectUnfloored(round, node) ==
    /\ nodes' = [nodes EXCEPT ![node].reputation = @ - 20]
    /\ UNCHANGED trainingRounds


\* A coordinator that strikes a rejected node off the round.
ValidateRejectDropsParticipant(round, node) ==
    /\ nodes' = [nodes EXCEPT ![node].reputation = IF @ > 20 THEN @ - 20 ELSE 0]
    /\ trainingRounds' = [trainingRounds EXCEPT ![round] =
            [@ EXCEPT !.participants = @ \ {node},
                      !.currentParticipants = @ - 1]]

\* The rejecting branch: reputation - 20 floored at 0; the update record is not touched.
ValidateReject(round, node) ==
    /\ nodes' = [nodes EXCEPT ![node].reputation = IF @ > 20 THEN @ - 20 ELSE 0]
    /\ UNCHANGED trainingRounds

validateModelUpdate(caller, node, isValid) ==
    IF validateModelUpdateErr(caller, node, isValid) # OK
    THEN Revert
    ELSE /\ IF isValid THEN ValidateAccept(currentRound, node)
                       ELSE ValidateReject(currentRound, node)
         /\ validations' = [validations EXCEPT ![currentRound][node] = @ + 1]
         /\ last' = Outcome("validateModelUpdate", caller, <<node, isValid>>,
                            IF isValid THEN <<>> ELSE <<"NodeSlashed">>, 0)
         /\ UNCHANGED <<now, flRoles, models, modelUpdates, currentRound,
                        totalRounds, minStakeAmount, notFL>>

\* Events of _distributeRewards: the per-node share is computed and dropped.
distributeRewardsEvents(roundId) ==
    LET round == trainingRounds[roundId]
        validParticipants == round.currentParticipants
    IN IF validParticipants > 0 /\ round.rewardPool > 0
       THEN <<"RewardsDistributed">> ELSE <<>>

\* aggregateModelErr with the quorum test written > instead of >=.
aggregateModelErrStrictQuorum(caller, roundId, modelHash, accuracy) ==
    LET round == trainingRounds[roundId]
    IN IF caller \notin flRoles["AGGREGATOR_ROLE"] THEN "AccessControl: missing role"
       ELSE IF ~round.isActive THEN "Round not active"
       ELSE IF ~(now > round.endTime) THEN "Round not ended"
       ELSE IF ~(round.currentParticipants > round.minParticipants)
            THEN "Insufficient participants"
       ELSE IF modelHash = ZEROHASH THEN "Invalid model hash"
       ELSE IF ~(accuracy <= 10000) THEN "Invalid accuracy"
       ELSE OK

\* The first failing requirement of aggregateModel, or OK.
aggregateModelErr(caller, roundId, modelHash, accuracy) ==
    LET round == trainingRounds[roundId]
    IN IF caller \notin flRoles["AGGREGATOR_ROLE"] THEN "AccessControl: missing role"
       ELSE IF ~round.isActive THEN "Round not active"
       ELSE IF ~(now > round.endTime) THEN "Round not ended"
       ELSE IF ~(round.currentParticipants >= round.minParticipants)
            THEN "Insufficient participants"
       ELSE IF modelHash = ZEROHASH THEN "Invalid model hash"
       ELSE IF ~(accuracy <= 10000) THEN "Invalid accuracy"
       ELSE OK

\* A coordinator that publishes the new model and forgets the preceding one.
PublishModelKeepPrevious(caller, roundId, modelHash, accuracy) ==
    [models EXCEPT ![roundId] =
        [modelHash |-> modelHash, round |-> roundId, aggregator |-> caller,
         participantCount |-> trainingRounds[roundId].currentParticipants,
         isActive |-> TRUE, accuracy |-> accuracy]]

\* The models mapping after a successful aggregateModel.
PublishModel(caller, roundId, modelHash, accuracy) ==
    LET published == [models EXCEPT ![roundId] =
                        [modelHash |-> modelHash, round |-> roundId,
                         aggregator |-> caller,
                         participantCount |-> trainingRounds[roundId].currentParticipants,
                         isActive |-> TRUE, accuracy |-> accuracy]]
    IN IF roundId > 1
       THEN [published EXCEPT ![roundId - 1].isActive = FALSE]
       ELSE published


\* A coordinator that moves on to the next round without counting the one it
\* has just aggregated.
aggregateModelUncounted(caller, roundId, modelHash, accuracy) ==
    IF aggregateModelErr(caller, roundId, modelHash, accuracy) # OK
    THEN Revert
    ELSE /\ models' = PublishModel(caller, roundId, modelHash, accuracy)
         /\ trainingRounds' = [trainingRounds EXCEPT ![roundId].isActive = FALSE]
         /\ currentRound' = currentRound + 1
         /\ last' = Outcome("aggregateModel", caller, <<roundId, modelHash, accuracy>>,
                            <<"ModelAggregated", "TrainingRoundEnded">>
                                \o distributeRewardsEvents(roundId), 0)
         /\ UNCHANGED <<now, flRoles, nodes, modelUpdates, minStakeAmount, validations,
                        totalRounds, notFL>>

aggregateModel(caller, roundId, modelHash, accuracy) ==
    IF aggregateModelErr(caller, roundId, modelHash, accuracy) # OK
    THEN Revert
    ELSE /\ models' = PublishModel(caller, roundId, modelHash, accuracy)
         /\ trainingRounds' = [trainingRounds EXCEPT ![roundId].isActive = FALSE]
         /\ currentRound' = currentRound + 1
         /\ totalRounds' = totalRounds + 1
         /\ last' = Outcome("aggregateModel", caller, <<roundId, modelHash, accuracy>>,
                            <<"ModelAggregated", "TrainingRoundEnded">>
                                \o distributeRewardsEvents(roundId), 0)
         /\ UNCHANGED <<now, flRoles, nodes, modelUpdates, minStakeAmount, validations, notFL>>


\* getCurrentModel: for (i = totalRounds; i >= 1; i--) the first round whose
\* model is active; 0 when the loop runs out.
RECURSIVE ActiveModelFrom(_)
ActiveModelFrom(i) ==
    IF ~(i >= 1) THEN 0
    ELSE IF models[i].isActive THEN i
    ELSE ActiveModelFrom(i - 1)

getCurrentModelErr ==
    IF ActiveModelFrom(totalRounds) = 0 THEN "No active model found" ELSE OK

\* The hash, round and accuracy getCurrentModel returns when it does not
\* revert (the model's timestamp is not followed).
getCurrentModel ==
    LET model == models[ActiveModelFrom(totalRounds)]
    IN <<model.modelHash, model.round, model.accuracy>>

\* block.timestamp moves on between transactions.
FLTick ==
    /\ now < MaxNowFL
    /\ now' = now + 1
    /\ UNCHANGED <<last, flVars, notFL>>

\* Inputs tried: the valid ones and, for each requirement, one that breaks it.
RoundParams == {<<1, 1, 1>>, <<1, 1, 2>>, <<1, 2, 2>>, <<0, 1, 1>>, <<1, 0, 1>>, <<1, 2, 1>>}
                   \cup {<<d, 1, 1>> : d \in 1..MaxDuration}
PoolInputs == {<<0, TRUE>>, <<10, TRUE>>, <<10, FALSE>>}
UpdateInputs == {<<HASH, HASH, InitMinStake>>, <<ZEROHASH, HASH, InitMinStake>>,
                 <<HASH, ZEROHASH, InitMinStake>>, <<HASH, HASH, InitMinStake - 1>>}
AggregateInputs == {<<HASH, 10000>>, <<ZEROHASH, 10000>>, <<HASH, 10001>>}

FLNext ==
    \/ \E c \in {Admin, "n1"} : flGrantRole(c, "VALIDATOR_ROLE", "n2")
    \/ \E c \in {"n1", "n2"} : registerNode(c)
    \/ \E p \in RoundParams, q \in PoolInputs :
          /\ currentRound <= MaxRounds
          /\ startTrainingRound(Admin, p[1], p[2], p[3], q[1], q[2])
    \/ startTrainingRound("n1", 1, 1, 1, 0, TRUE)
    \/ \E c \in FLAddr, u \in UpdateInputs : submitModelUpdate(c, u[1], u[2], u[3])
    \/ \E c \in {"n1", "n2"}, n \in {"n1", Admin}, isValid \in BOOLEAN :
          /\ validations[currentRound][n] < MaxValidations
          /\ validateModelUpdate(c, n, isValid)
    \/ \E r \in RoundIds, a \in AggregateInputs : aggregateModel(Admin, r, a[1], a[2])
    \/ \E r \in RoundIds : aggregateModel("n1", r, HASH, 10000)
    \/ FLTick

\* The coordinator followed for the reputation of one node: valid calls only,
\* two registrations, and enough verdicts on n1 to bring it from 110 to 0.
FLSlashNext ==
    \/ flGrantRole(Admin, "VALIDATOR_ROLE", "n2")
    \/ \E c \in {"n1", "n2"} : registerNode(c)
    \/ /\ currentRound <= MaxRounds
       /\ startTrainingRound(Admin, 1, 1, 2, 0, TRUE)
    \/ \E c \in {"n1", "n2"} : submitModelUpdate(c, HASH, HASH, InitMinStake)
    \/ \E isValid \in BOOLEAN :
          /\ validations[currentRound]["n1"] < MaxSlashes
          /\ validateModelUpdate("n2", "n1", isValid)
    \/ aggregateModel(Admin, currentRound, HASH, 10000)
    \/ FLTick

\* ====================================================================
\*  DataMarketplace
\* ====================================================================
DMAddr == {Admin, "s1", "b1", "b2"}
ProductIds == 0..(MaxProducts + 1)
InitFeeRecipient == "treasury"      \* constructor argument _feeRecipient

EmptyProduct ==
    [productId |-> 0, seller |-> ZERO, name |-> "", price |-> 0, dataHash |-> ZEROHASH,
     isActive |-> FALSE, totalSales |-> 0, rating |-> 0, reviewCount |-> 0]

DMInit ==
    /\ dmRoles = [r \in {"DEFAULT_ADMIN_ROLE", "VERIFIER_ROLE"} |-> {Admin}]
    /\ products = [p \in ProductIds |-> EmptyProduct]
    /\ purchases = <<>>
    /\ productReviews = [p \in ProductIds |-> <<>>]
    /\ userPurchases = [a \in DMAddr |-> <<>>]
    /\ sellerProducts = [a \in DMAddr |-> <<>>]
    /\ hasPurchased = [a \in DMAddr |-> [p \in ProductIds |-> FALSE]]
    /\ nextProductId = 1
    /\ nextPurchaseId = 1
    /\ platformFeePercent = 250
    /\ feeRecipient = InitFeeRecipient

\* A committed marketplace call together with the token transfers it ordered.
DMOutcome(op, caller, args, events, ret, transfers) ==
    [op |-> op, caller |-> caller, args |-> args, events |-> events, ret |-> ret,
     transfers |-> transfers]

listProductErr(caller, name, price, dataHash) ==
    IF name = "" THEN "Name cannot be empty"
    ELSE IF ~(price > 0) THEN "Price must be greater than 0"
    ELSE IF dataHash = ZEROHASH THEN "Invalid data hash"
    ELSE OK

listProduct(caller, name, price, dataHash) ==
    IF listProductErr(caller, name, price, dataHash) # OK
    THEN Revert
    ELSE /\ nextProductId' = nextProductId + 1
         /\ products' = [products EXCEPT ![nextProductId] =
                [productId |-> nextProductId, seller |-> caller, name |-> name,
                 price |-> price, dataHash |-> dataHash, isActive |-> TRUE,
                 totalSales |-> 0, rating |-> 0, reviewCount |-> 0]]
         /\ sellerProducts' = [sellerProducts EXCEPT ![caller] = Append(@, nextProductId)]
         /\ last' = DMOutcome("listProduct", caller, <<name, price, dataHash>>,
                              <<"ProductListed">>, nextProductId, <<>>)
         /\ UNCHANGED <<now, dmRoles, purchases, productReviews, userPurchases,
                        hasPurchased, nextPurchaseId, platformFeePercent, feeRecipient,
                        notDM>>


\* A marketplace whose fee is rounded up instead of truncated.
PlatformFeeRoundedUp(totalPrice) == (totalPrice * platformFeePercent + 9999) \div 10000

\* ReentrancyGuard: the two values of _status, and the start of nonReentrant.
NOT_ENTERED == "NOT_ENTERED"
ENTERED == "ENTERED"

CallInit ==
    /\ dmStatus = NOT_ENTERED
    /\ frames = <<>>

\* The registry lookup of the portal is a call to a view function, made as a
\* static call: while it is in flight no call can write to any ledger.
InStaticCall == \E i \in 1..Len(frames) : frames[i].op = "submitCreditRequest"

\* A call offered to the ledger at any point: it writes, so it reverts when
\* made inside a static call.
Call(A) == IF InStaticCall THEN Revert ELSE A

\* A marketplace whose purchaseProduct carries no nonReentrant modifier.
nonReentrantErrAbsent(status) == OK

nonReentrantErr(status) ==
    IF status = ENTERED THEN "ReentrancyGuard: reentrant call" ELSE OK

\* platformFee = (totalPrice * platformFeePercent) / 10000, truncated.
PlatformFee(totalPrice) == (totalPrice * platformFeePercent) \div 10000

\* purchaseProductErr without the "Already purchased" requirement.
purchaseProductErrNoRepeatCheck(caller, productId, tokenOk) ==
    LET product == products[productId]
    IN IF nonReentrantErr(dmStatus) # OK THEN nonReentrantErr(dmStatus)
       ELSE IF ~product.isActive THEN "Product not active"
       ELSE IF product.seller = caller THEN "Cannot buy own product"
       ELSE IF ~tokenOk THEN "ERC20: transferFrom reverted"
       ELSE OK

\* tokenOk: whether both transferFrom calls of the payment token return.
purchaseProductErr(caller, productId, tokenOk) ==
    LET product == products[productId]
    IN IF nonReentrantErr(dmStatus) # OK THEN nonReentrantErr(dmStatus)
       ELSE IF ~product.isActive THEN "Product not active"
       ELSE IF product.seller = caller THEN "Cannot buy own product"
       ELSE IF hasPurchased[caller][productId] THEN "Already purchased"
       ELSE IF ~tokenOk THEN "ERC20: transferFrom reverted"
       ELSE OK

purchaseProduct(caller, productId, tokenOk) ==
    LET product == products[productId]
        totalPrice == product.price
        platformFee == PlatformFee(totalPrice)
        sellerAmount == totalPrice - platformFee
        purchase == [purchaseId |-> nextPurchaseId, productId |-> productId,
                     buyer |-> caller, seller |-> product.seller, price |-> totalPrice,
                     isCompleted |-> TRUE, accessKey |-> <<caller, productId, now>>]
    IN IF purchaseProductErr(caller, productId, tokenOk) # OK
       THEN Revert
       ELSE /\ nextPurchaseId' = nextPurchaseId + 1
            /\ purchases' = Append(purchases, purchase)
            /\ userPurchases' = [userPurchases EXCEPT ![caller] = Append(@, nextPurchaseId)]
            /\ hasPurchased' = [hasPurchased EXCEPT ![caller][productId] = TRUE]
            /\ products' = [products EXCEPT ![productId].totalSales = @ + 1]
            /\ last' = DMOutcome("purchaseProduct", caller, <<productId>>,
                                 <<"ProductPurchased">>, nextPurchaseId,
                                 << <<caller, product.seller, sellerAmount>>,
                                    <<caller, feeRecipient, platformFee>> >>)
            /\ UNCHANGED <<now, dmRoles, productReviews, sellerProducts, nextProductId,
                           platformFeePercent, feeRecipient, notDM>>

\* purchaseProduct up to its first transferFrom.  The payment token is an
\* external contract: while its two transfers run it may hand control to any
\* identity, which may call the ledger again before purchaseProduct goes on.
\* A purchase whose transfers revert leaves no trace, so the token's answer is
\* taken on entry.
purchaseProductEnterErr(caller, productId, tokenOk) ==
    IF InStaticCall THEN "state change inside a static call"
    ELSE purchaseProductErr(caller, productId, tokenOk)

purchaseProductEnter(caller, productId, tokenOk) ==
    LET product == products[productId]
        totalPrice == product.price
        platformFee == PlatformFee(totalPrice)
    IN IF purchaseProductEnterErr(caller, productId, tokenOk) # OK
       THEN Revert
       ELSE /\ dmStatus' = ENTERED
            /\ frames' = Append(frames,
                    [op |-> "purchaseProduct", caller |-> caller, productId |-> productId,
                     seller |-> product.seller, totalPrice |-> totalPrice,
                     platformFee |-> platformFee,
                     sellerAmount |-> totalPrice - platformFee])
            /\ UNCHANGED <<now, last, dmVars, flVars, csrVars, lpVars>>

\* purchaseProduct from the return of its second transferFrom to its end: the
\* purchase is recorded under the id the counter holds now, with the price
\* read on entry, and nonReentrant sets _status back.
purchaseProductExit ==
    /\ frames # <<>>
    /\ frames[Len(frames)].op = "purchaseProduct"
    /\ LET f == frames[Len(frames)]
           purchase == [purchaseId |-> nextPurchaseId, productId |-> f.productId,
                        buyer |-> f.caller, seller |-> products[f.productId].seller,
                        price |-> f.totalPrice, isCompleted |-> TRUE,
                        accessKey |-> <<f.caller, f.productId, now>>]
       IN /\ nextPurchaseId' = nextPurchaseId + 1
          /\ purchases' = Append(purchases, purchase)
          /\ userPurchases' = [userPurchases EXCEPT ![f.caller] = Append(@, nextPurchaseId)]
          /\ hasPurchased' = [hasPurchased EXCEPT ![f.caller][f.productId] = TRUE]
          /\ products' = [products EXCEPT ![f.productId].totalSales = @ + 1]
          /\ dmStatus' = NOT_ENTERED
          /\ frames' = SubSeq(frames, 1, Len(frames) - 1)
          /\ last' = DMOutcome("purchaseProduct", f.caller, <<f.productId>>,
                               <<"ProductPurchased">>, nextPurchaseId,
                               << <<f.caller, f.seller, f.sellerAmount>>,
                                  <<f.caller, feeRecipient, f.platformFee>> >>)
          /\ UNCHANGED <<now, dmRoles, productReviews, sellerProducts, nextProductId,
                         platformFeePercent, feeRecipient, flVars, csrVars, lpVars>>

\* rating * 100 is evaluated in the type of `rating`, uint8: checked arithmetic
\* panics when the product does not fit.
UINT8_MAX == 255
RatingTimes100Overflows(rating) == rating * 100 > UINT8_MAX

\* AlreadyReviewed with the loop stopping after the first stored review.
AlreadyReviewedFirstOnly(caller, productId) ==
    /\ Len(productReviews[productId]) > 0
    /\ productReviews[productId][1].reviewer = caller

AlreadyReviewed(caller, productId) ==
    \E i \in 1..Len(productReviews[productId]) :
        productReviews[productId][i].reviewer = caller


\* A marketplace that takes a review from an identity that never bought the product.
submitReviewErrAnyone(caller, productId, rating, comment) ==
    IF ~(rating >= 1 /\ rating <= 5) THEN "Rating must be 1-5"
    ELSE IF comment = "" THEN "Comment cannot be empty"
    ELSE IF AlreadyReviewed(caller, productId) THEN "Already reviewed"
    ELSE IF RatingTimes100Overflows(rating) THEN "Panic(0x11): arithmetic overflow"
    ELSE OK

submitReviewErr(caller, productId, rating, comment) ==
    IF ~hasPurchased[caller][productId] THEN "Must purchase to review"
    ELSE IF ~(rating >= 1 /\ rating <= 5) THEN "Rating must be 1-5"
    ELSE IF comment = "" THEN "Comment cannot be empty"
    ELSE IF AlreadyReviewed(caller, productId) THEN "Already reviewed"
    ELSE IF RatingTimes100Overflows(rating) THEN "Panic(0x11): arithmetic overflow"
    ELSE OK

\* The product record after a review with `rating` is folded into its average.
RatedProduct(product, rating) ==
    LET totalRating == (product.rating * product.reviewCount) + (rating * 100)
    IN [product EXCEPT !.reviewCount = product.reviewCount + 1,
                       !.rating = totalRating \div (product.reviewCount + 1)]

submitReview(caller, productId, rating, comment) ==
    IF submitReviewErr(caller, productId, rating, comment) # OK
    THEN Revert
    ELSE /\ productReviews' = [productReviews EXCEPT ![productId] =
                Append(@, [reviewer |-> caller, productId |-> productId,
                           rating |-> rating, comment |-> comment, isVerified |-> TRUE])]
         /\ products' = [products EXCEPT ![productId] = RatedProduct(@, rating)]
         /\ last' = DMOutcome("submitReview", caller, <<productId, rating, comment>>,
                              <<"ProductReviewed">>, 0, <<>>)
         /\ UNCHANGED <<now, dmRoles, purchases, userPurchases, sellerProducts,
                        hasPurchased, nextProductId, nextPurchaseId, platformFeePercent,
                        feeRecipient, notDM>>

\* A marketplace that lets the seller reprice a product that is off the shelf.
updateProductPriceErrNoActiveCheck(caller, productId, newPrice) ==
    IF products[productId].seller # caller THEN "Only seller can update"
    ELSE IF ~(newPrice > 0) THEN "Price must be greater than 0"
    ELSE OK

updateProductPriceErr(caller, productId, newPrice) ==
    IF products[productId].seller # caller THEN "Only seller can update"
    ELSE IF ~products[productId].isActive THEN "Product not active"
    ELSE IF ~(newPrice > 0) THEN "Price must be greater than 0"
    ELSE OK

updateProductPrice(caller, productId, newPrice) ==
    IF updateProductPriceErr(caller, productId, newPrice) # OK
    THEN Revert
    ELSE /\ products' = [products EXCEPT ![productId].price = newPrice]
         /\ last' = DMOutcome("updateProductPrice", caller, <<productId, newPrice>>,
                              <<"ProductUpdated">>, 0, <<>>)
         /\ UNCHANGED <<now, dmRoles, purchases, productReviews, userPurchases,
                        sellerProducts, hasPurchased, nextProductId, nextPurchaseId,
                        platformFeePercent, feeRecipient, notDM>>

deactivateProductErr(caller, productId) ==
    IF products[productId].seller # caller THEN "Only seller can deactivate"
    ELSE IF ~products[productId].isActive THEN "Product already inactive"
    ELSE OK

deactivateProduct(caller, productId) ==
    IF deactivateProductErr(caller, productId) # OK
    THEN Revert
    ELSE /\ products' = [products EXCEPT ![productId].isActive = FALSE]
         /\ last' = DMOutcome("deactivateProduct", caller, <<productId>>,
                              <<"ProductDeactivated">>, 0, <<>>)
         /\ UNCHANGED <<now, dmRoles, purchases, productReviews, userPurchases,
                        sellerProducts, hasPurchased, nextProductId, nextPurchaseId,
                        platformFeePercent, feeRecipient, notDM>>

updatePlatformFeeErr(caller, newFeePercent) ==
    IF caller \notin dmRoles["DEFAULT_ADMIN_ROLE"] THEN "AccessControl: missing role"
    ELSE IF ~(newFeePercent <= 1000) THEN "Fee cannot exceed 10%"
    ELSE OK

updatePlatformFee(caller, newFeePercent) ==
    IF updatePlatformFeeErr(caller, newFeePercent) # OK
    THEN Revert
    ELSE /\ platformFeePercent' = newFeePercent
         /\ last' = DMOutcome("updatePlatformFee", caller, <<newFeePercent>>, <<>>, 0, <<>>)
         /\ UNCHANGED <<now, dmRoles, products, purchases, productReviews, userPurchases,
                        sellerProducts, hasPurchased, nextProductId, nextPurchaseId,
                        feeRecipient, notDM>>

updateFeeRecipientErr(caller, newRecipient) ==
    IF caller \notin dmRoles["DEFAULT_ADMIN_ROLE"] THEN "AccessControl: missing role"
    ELSE IF newRecipient = ZERO THEN "Invalid recipient"
    ELSE OK

updateFeeRecipient(caller, newRecipient) ==
    IF updateFeeRecipientErr(caller, newRecipient) # OK
    THEN Revert
    ELSE /\ feeRecipient' = newRecipient
         /\ last' = DMOutcome("updateFeeRecipient", caller, <<newRecipient>>, <<>>, 0, <<>>)
         /\ UNCHANGED <<now, dmRoles, products, purchases, productReviews, userPurchases,
                        sellerProducts, hasPurchased, nextProductId, nextPurchaseId,
                        platformFeePercent, notDM>>

emergencyDeactivateProductErr(caller, productId) ==
    IF caller \notin dmRoles["DEFAULT_ADMIN_ROLE"] THEN "AccessControl: missing role" ELSE OK

emergencyDeactivateProduct(caller, productId) ==
    IF emergencyDeactivateProductErr(caller, productId) # OK
    THEN Revert
    ELSE /\ products' = [products EXCEPT ![productId].isActive = FALSE]
         /\ last' = DMOutcome("emergencyDeactivateProduct", caller, <<productId>>,
                              <<"ProductDeactivated">>, 0, <<>>)
         /\ UNCHANGED <<now, dmRoles, purchases, productReviews, userPurchases,
                        sellerProducts, hasPurchased, nextProductId, nextPurchaseId,
                        platformFeePercent, feeRecipient, notDM>>

ListInputs == {<<"p", 100, HASH>>, <<"", 100, HASH>>, <<"p", 0, HASH>>, <<"p", 100, ZEROHASH>>}
ReviewInputs == {<<r, "c">> : r \in 0..6} \cup {<<1, "">>}

DMNext ==
    \/ \E x \in ListInputs :
          /\ nextProductId <= MaxProducts
          /\ listProduct("s1", x[1], x[2], x[3])
    \/ \E c \in {"s1", "b1", "b2"}, p \in ProductIds, tokenOk \in BOOLEAN :
          purchaseProduct(c, p, tokenOk)
    \/ \E c \in {"s1", "b1", "b2"}, p \in 1..MaxProducts, x \in ReviewInputs :
          submitReview(c, p, x[1], x[2])
    \/ \E c \in {"s1", "b1"}, p \in 1..MaxProducts, np \in {0, 40} :
          updateProductPrice(c, p, np)
    \/ \E c \in {"s1", "b1"}, p \in 1..MaxProducts : deactivateProduct(c, p)
    \/ \E c \in {Admin, "b1"}, f \in {1000, 1001} : updatePlatformFee(c, f)
    \/ \E c \in {Admin, "b1"}, r \in {ZERO, "treasury2"} : updateFeeRecipient(c, r)
    \/ \E c \in {Admin, "b1"}, p \in 1..MaxProducts : emergencyDeactivateProduct(c, p)

\* ====================================================================
\*  CreditScoreRegistry
\* ====================================================================
Portal == "portal"                  \* address of the deployed LenderPortal
CSRAddr == {Admin, "o1", "l1", "b1", "b2", Portal}
CSRRoleNames == {"DEFAULT_ADMIN_ROLE", "ORACLE_ROLE", "LENDER_ROLE"}

EmptyScore ==
    [score |-> 0, lastUpdated |-> 0, version |-> 0, isActive |-> FALSE, updatedBy |-> ZERO]
EmptyFactors ==
    [paymentHistory |-> 0, creditUtilization |-> 0, creditLength |-> 0,
     creditMix |-> 0, newCredit |-> 0]
EmptyConsent ==
    [dataHash |-> ZEROHASH, timestamp |-> 0, isActive |-> FALSE, expiryTime |-> 0,
     authorizedLenders |-> <<>>]

CSRInit ==
    /\ csrRoles = [r \in CSRRoleNames |->
                     IF r \in {"DEFAULT_ADMIN_ROLE", "ORACLE_ROLE"} THEN {Admin} ELSE {}]
    /\ paused = FALSE
    /\ scores = [a \in CSRAddr |-> EmptyScore]
    /\ scoreFactors = [a \in CSRAddr |-> EmptyFactors]
    /\ consents = [a \in CSRAddr |-> EmptyConsent]
    /\ lenderAccess = [u \in CSRAddr |-> [l \in CSRAddr |-> FALSE]]
    /\ userNonces = [a \in CSRAddr |-> 0]

\* A registry whose range check excludes the two end points.
updateScoreErrExclusiveRange(caller, user, score) ==
    IF caller \notin csrRoles["ORACLE_ROLE"] THEN "AccessControl: missing role"
    ELSE IF paused THEN "Pausable: paused"
    ELSE IF user = ZERO THEN "Invalid user address"
    ELSE IF ~(score > 300 /\ score < 850) THEN "Score must be between 300-850"
    ELSE OK

\* updateScore: onlyRole(ORACLE_ROLE) whenNotPaused nonReentrant, then the requires.
updateScoreErr(caller, user, score) ==
    IF caller \notin csrRoles["ORACLE_ROLE"] THEN "AccessControl: missing role"
    ELSE IF paused THEN "Pausable: paused"
    ELSE IF user = ZERO THEN "Invalid user address"
    ELSE IF ~(score >= 300 /\ score <= 850) THEN "Score must be between 300-850"
    ELSE OK

\* A registry that stamps every written score as version 1.
UpdatedScoreVersionOne(old, score, caller) ==
    [score |-> score, lastUpdated |-> now, version |-> 1,
     isActive |-> TRUE, updatedBy |-> caller]

\* The score record of an identity after one more update.
UpdatedScore(old, score, caller) ==
    [score |-> score, lastUpdated |-> now, version |-> old.version + 1,
     isActive |-> TRUE, updatedBy |-> caller]

updateScore(caller, user, score) ==
    IF updateScoreErr(caller, user, score) # OK
    THEN Revert
    ELSE /\ scores' = [scores EXCEPT ![user] = UpdatedScore(@, score, caller)]
         /\ last' = Outcome("updateScore", caller, <<user, score>>, <<"ScoreUpdated">>, 0)
         /\ UNCHANGED <<now, csrRoles, paused, scoreFactors, consents, lenderAccess,
                        userNonces, notCSR>>

updateScoreFactorsErr(caller, user, f) ==
    IF caller \notin csrRoles["ORACLE_ROLE"] THEN "AccessControl: missing role"
    ELSE IF paused THEN "Pausable: paused"
    ELSE IF user = ZERO THEN "Invalid user address"
    ELSE IF ~(f[1] <= 100 /\ f[2] <= 100 /\ f[3] <= 100 /\ f[4] <= 100 /\ f[5] <= 100)
         THEN "All factors must be 0-100"
    ELSE OK

updateScoreFactors(caller, user, f) ==
    IF updateScoreFactorsErr(caller, user, f) # OK
    THEN Revert
    ELSE /\ scoreFactors' = [scoreFactors EXCEPT ![user] =
                [paymentHistory |-> f[1], creditUtilization |-> f[2], creditLength |-> f[3],
                 creditMix |-> f[4], newCredit |-> f[5]]]
         /\ last' = Outcome("updateScoreFactors", caller, <<user, f>>,
                            <<"ScoreFactorsUpdated">>, 0)
         /\ UNCHANGED <<now, csrRoles, paused, scores, consents, lenderAccess,
                        userNonces, notCSR>>

\* A registry that forgets the lender role when it authorizes a read.
MayReadNoRole(caller, user) ==
    \/ caller = user
    \/ lenderAccess[user][caller]

\* msg.sender == user || hasRole(LENDER_ROLE, msg.sender) || lenderAccess[user][msg.sender]
MayRead(caller, user) ==
    \/ caller = user
    \/ caller \in csrRoles["LENDER_ROLE"]
    \/ lenderAccess[user][caller]

getScoreErr(caller, user) ==
    IF user = ZERO THEN "Invalid user address"
    ELSE IF ~MayRead(caller, user) THEN "Unauthorized access"
    ELSE IF ~scores[user].isActive THEN "No active score found"
    ELSE OK

\* getScore is a view: a call that returns leaves only its return value.
getScore(caller, user) ==
    IF getScoreErr(caller, user) # OK
    THEN Revert
    ELSE /\ last' = Outcome("getScore", caller, <<user>>, <<>>, scores[user].score)
         /\ UNCHANGED <<now, csrVars, notCSR>>

updateConsentErr(caller, dataHash, expiryTime) ==
    IF paused THEN "Pausable: paused"
    ELSE IF dataHash = ZEROHASH THEN "Invalid data hash"
    ELSE IF ~(expiryTime > now) THEN "Expiry must be in future"
    ELSE OK


\* A registry that stores every consent as a fresh record, its list of
\* authorized lenders empty.
updateConsentFreshRecord(caller, dataHash, expiryTime) ==
    IF updateConsentErr(caller, dataHash, expiryTime) # OK
    THEN Revert
    ELSE /\ consents' = [consents EXCEPT ![caller] =
                [dataHash |-> dataHash, timestamp |-> now, isActive |-> TRUE,
                 expiryTime |-> expiryTime, authorizedLenders |-> <<>>]]
         /\ userNonces' = [userNonces EXCEPT ![caller] = @ + 1]
         /\ last' = Outcome("updateConsent", caller, <<dataHash, expiryTime>>,
                            <<"ConsentUpdated">>, 0)
         /\ UNCHANGED <<now, csrRoles, paused, scores, scoreFactors, lenderAccess, notCSR>>

updateConsent(caller, dataHash, expiryTime) ==
    IF updateConsentErr(caller, dataHash, expiryTime) # OK
    THEN Revert
    ELSE /\ consents' = [consents EXCEPT ![caller] =
                [@ EXCEPT !.dataHash = dataHash, !.timestamp = now, !.isActive = TRUE,
                          !.expiryTime = expiryTime]]
         /\ userNonces' = [userNonces EXCEPT ![caller] = @ + 1]
         /\ last' = Outcome("updateConsent", caller, <<dataHash, expiryTime>>,
                            <<"ConsentUpdated">>, 0)
         /\ UNCHANGED <<now, csrRoles, paused, scores, scoreFactors, lenderAccess, notCSR>>


\* A registry for which a consent still holds at the very time it expires.
isConsentValidInclusive(user) == consents[user].isActive /\ consents[user].expiryTime >= now

\* consent.isActive && consent.expiryTime > block.timestamp
isConsentValid(user) == consents[user].isActive /\ consents[user].expiryTime > now


\* A registry whose grantLenderAccess lacks whenNotPaused.
grantLenderAccessErrIgnoresPause(caller, lender) ==
    IF lender = ZERO THEN "Invalid lender address"
    ELSE IF lenderAccess[caller][lender] THEN "Access already granted"
    ELSE OK

grantLenderAccessErr(caller, lender) ==
    IF paused THEN "Pausable: paused"
    ELSE IF lender = ZERO THEN "Invalid lender address"
    ELSE IF lenderAccess[caller][lender] THEN "Access already granted"
    ELSE OK

grantLenderAccess(caller, lender) ==
    IF grantLenderAccessErr(caller, lender) # OK
    THEN Revert
    ELSE /\ lenderAccess' = [lenderAccess EXCEPT ![caller][lender] = TRUE]
         /\ consents' = [consents EXCEPT ![caller].authorizedLenders = Append(@, lender)]
         /\ last' = Outcome("grantLenderAccess", caller, <<lender>>,
                            <<"LenderAccessGranted">>, 0)
         /\ UNCHANGED <<now, csrRoles, paused, scores, scoreFactors, userNonces, notCSR>>

revokeLenderAccessErr(caller, lender) ==
    IF paused THEN "Pausable: paused"
    ELSE IF lender = ZERO THEN "Invalid lender address"
    ELSE IF ~lenderAccess[caller][lender] THEN "Access not granted"
    ELSE OK


\* A registry that truncates the list without first moving its last element
\* into the revoked lender's place.
SwapAndPopTruncateOnly(list, lender) ==
    IF \E i \in 1..Len(list) : list[i] = lender
    THEN SubSeq(list, 1, Len(list) - 1)
    ELSE list

\* The list with the first occurrence of `lender` overwritten by the last
\* element and the list truncated by one; unchanged when `lender` is absent.
SwapAndPop(list, lender) ==
    IF \E i \in 1..Len(list) : list[i] = lender
    THEN LET i == CHOOSE k \in 1..Len(list) :
                      list[k] = lender /\ \A j \in 1..(k - 1) : list[j] # lender
         IN SubSeq([list EXCEPT ![i] = list[Len(list)]], 1, Len(list) - 1)
    ELSE list

revokeLenderAccess(caller, lender) ==
    IF revokeLenderAccessErr(caller, lender) # OK
    THEN Revert
    ELSE /\ lenderAccess' = [lenderAccess EXCEPT ![caller][lender] = FALSE]
         /\ consents' = [consents EXCEPT ![caller].authorizedLenders = SwapAndPop(@, lender)]
         /\ last' = Outcome("revokeLenderAccess", caller, <<lender>>,
                            <<"LenderAccessRevoked">>, 0)
         /\ UNCHANGED <<now, csrRoles, paused, scores, scoreFactors, userNonces, notCSR>>

\* A registry that validates only the first entry of a batch.
batchUpdateScoresErrFirstOnly(caller, users, newScores) ==
    IF caller \notin csrRoles["ORACLE_ROLE"] THEN "AccessControl: missing role"
    ELSE IF paused THEN "Pausable: paused"
    ELSE IF Len(users) # Len(newScores) THEN "Array length mismatch"
    ELSE IF ~(Len(users) <= 100) THEN "Batch size too large"
    ELSE IF Len(users) = 0 THEN OK
    ELSE IF users[1] = ZERO THEN "Invalid user address"
    ELSE IF ~(newScores[1] >= 300 /\ newScores[1] <= 850) THEN "Invalid score"
    ELSE OK

\* The first failing requirement met while walking the two lists, or OK.
batchUpdateScoresErr(caller, users, newScores) ==
    IF caller \notin csrRoles["ORACLE_ROLE"] THEN "AccessControl: missing role"
    ELSE IF paused THEN "Pausable: paused"
    ELSE IF Len(users) # Len(newScores) THEN "Array length mismatch"
    ELSE IF ~(Len(users) <= 100) THEN "Batch size too large"
    ELSE LET bad == {i \in 1..Len(users) :
                        users[i] = ZERO \/ ~(newScores[i] >= 300 /\ newScores[i] <= 850)}
         IN IF bad = {} THEN OK
            ELSE LET first == CHOOSE i \in bad : \A j \in bad : i <= j
                 IN IF users[first] = ZERO THEN "Invalid user address" ELSE "Invalid score"

\* The scores mapping after entries 1..k of the lists are written, in order.
RECURSIVE BatchApplied(_, _, _, _, _)
BatchApplied(table, caller, users, newScores, k) ==
    IF k = 0 THEN table
    ELSE LET before == BatchApplied(table, caller, users, newScores, k - 1)
         IN [before EXCEPT ![users[k]] = UpdatedScore(@, newScores[k], caller)]

batchUpdateScores(caller, users, newScores) ==
    IF batchUpdateScoresErr(caller, users, newScores) # OK
    THEN Revert
    ELSE /\ scores' = BatchApplied(scores, caller, users, newScores, Len(users))
         /\ last' = Outcome("batchUpdateScores", caller, <<users, newScores>>,
                            [i \in 1..Len(users) |-> "ScoreUpdated"], 0)
         /\ UNCHANGED <<now, csrRoles, paused, scoreFactors, consents, lenderAccess,
                        userNonces, notCSR>>

pauseErr(caller) ==
    IF caller \notin csrRoles["DEFAULT_ADMIN_ROLE"] THEN "AccessControl: missing role"
    ELSE IF paused THEN "Pausable: paused"
    ELSE OK

pause(caller) ==
    IF pauseErr(caller) # OK
    THEN Revert
    ELSE /\ paused' = TRUE
         /\ last' = Outcome("pause", caller, <<>>, <<"Paused">>, 0)
         /\ UNCHANGED <<now, csrRoles, scores, scoreFactors, consents, lenderAccess,
                        userNonces, notCSR>>

unpauseErr(caller) ==
    IF caller \notin csrRoles["DEFAULT_ADMIN_ROLE"] THEN "AccessControl: missing role"
    ELSE IF ~paused THEN "Pausable: not paused"
    ELSE OK

unpause(caller) ==
    IF unpauseErr(caller) # OK
    THEN Revert
    ELSE /\ paused' = FALSE
         /\ last' = Outcome("unpause", caller, <<>>, <<"Unpaused">>, 0)
         /\ UNCHANGED <<now, csrRoles, scores, scoreFactors, consents, lenderAccess,
                        userNonces, notCSR>>

csrGrantErr(caller) ==
    IF caller \notin csrRoles["DEFAULT_ADMIN_ROLE"] THEN "AccessControl: missing role" ELSE OK

\* grantOracleRole / grantLenderRole: _grantRole(role, account) for an admin.
csrGrant(op, role, caller, account) ==
    IF csrGrantErr(caller) # OK
    THEN Revert
    ELSE /\ csrRoles' = [csrRoles EXCEPT ![role] = @ \cup {account}]
         /\ last' = Outcome(op, caller, <<account>>,
                            IF account \in csrRoles[role] THEN <<>> ELSE <<"RoleGranted">>, 0)
         /\ UNCHANGED <<now, paused, scores, scoreFactors, consents, lenderAccess,
                        userNonces, notCSR>>

grantOracleRole(caller, oracle) == csrGrant("grantOracleRole", "ORACLE_ROLE", caller, oracle)
grantLenderRole(caller, lender) == csrGrant("grantLenderRole", "LENDER_ROLE", caller, lender)

CSRTick ==
    /\ now < MaxNowCSR
    /\ now' = now + 1
    /\ UNCHANGED <<last, flVars, dmVars, csrVars, lpVars, callVars>>

ScoreInputs == {299, 300, 850, 851}
FactorInputs == {<<100, 100, 100, 100, 100>>, <<100, 100, 101, 100, 100>>}
BatchScoreInputs == {<< <<"b1", "b2">>, <<300, 850>> >>, << <<"b1", "b1">>, <<300, 850>> >>,
                     << <<"b1", "b2">>, <<300, 851>> >>, << <<"b1", ZERO>>, <<300, 850>> >>,
                     << <<"b1", "b2">>, <<300>> >>, << <<>>, <<>> >>,
                     << <<"b1", "b2">>, <<299, 850>> >>,
                     << [i \in 1..101 |-> "b1"], [i \in 1..101 |-> 300] >>}

CSRNext ==
    \/ \E c \in {Admin, "o1"}, u \in {"b1", ZERO}, sc \in ScoreInputs :
          /\ u # ZERO => scores[u].version < MaxVersion
          /\ updateScore(c, u, sc)
    \/ \E c \in {Admin, "b1"}, f \in FactorInputs : updateScoreFactors(c, "b1", f)
    \/ \E c \in {"b1", "b2", "l1", "o1"}, u \in {"b1", "b2", ZERO} : getScore(c, u)
    \/ \E h \in {HASH, ZEROHASH}, e \in {now, now + 1} :
          /\ userNonces["b1"] < MaxNonce
          /\ updateConsent("b1", h, e)
    \/ \E l \in {"l1", "o1", ZERO} : grantLenderAccess("b1", l)
    \/ \E l \in {"l1", "o1", ZERO} : revokeLenderAccess("b1", l)
    \/ \E c \in {Admin, "b1"}, x \in BatchScoreInputs :
          /\ IF batchUpdateScoresErr(c, x[1], x[2]) # OK THEN TRUE
             ELSE \A i \in 1..Len(x[1]) : scores[x[1][i]].version + Len(x[1]) <= MaxVersion
          /\ batchUpdateScores(c, x[1], x[2])
    \/ \E c \in {Admin, "b1"} : pause(c)
    \/ \E c \in {Admin, "b1"} : unpause(c)
    \/ \E c \in {Admin, "b1"} : grantOracleRole(c, "o1")
    \/ \E c \in {Admin, "b1"} : grantLenderRole(c, "l1")
    \/ CSRTick

\* The registry followed for consent alone: two updates per identity, with
\* either hash and an expiry now, next or the time after, over three ticks.
ConsentTick ==
    /\ now < MaxNowConsent
    /\ now' = now + 1
    /\ UNCHANGED <<last, flVars, dmVars, csrVars, lpVars, callVars>>

CSRConsentNext ==
    \/ \E h \in {HASH, HASH2, ZEROHASH}, e \in {now, now + 1, now + 2} :
          /\ IF updateConsentErr("b1", h, e) # OK THEN TRUE
             ELSE userNonces["b1"] < MaxConsents
          /\ updateConsent("b1", h, e)
    \/ /\ IF updateConsentErr("b2", HASH, now + 1) # OK THEN TRUE
          ELSE userNonces["b2"] < MaxConsents
       /\ updateConsent("b2", HASH, now + 1)
    \/ \E l \in {"l1", "o1"} : grantLenderAccess("b1", l)
    \/ pause(Admin)
    \/ unpause(Admin)
    \/ ConsentTick

\* ====================================================================
\*  LenderPortal
\*  Ether amounts are counted in units of 0.01 ether.  The registry the
\*  portal reads is the CreditScoreRegistry above; the portal calls it under
\*  its own address, Portal.
\* ====================================================================
InitRegistrationFee == 100          \* 1 ether
InitApiRequestFee == 1              \* 0.01 ether
THIRTY_DAYS == 2592000              \* 30 days, in seconds
BASIC_LIMIT == 100
PREMIUM_LIMIT == 1000
ENTERPRISE_LIMIT == 10000
MAX_BATCH == 100
LOW_RISK_SCORE == 700
MEDIUM_RISK_SCORE == 650
MEDIUM_RISK_PREMIUM == 200          \* basis points added for medium risk

LPAddr == {Admin, "l1", "l2"}
LPRoleNames == {"DEFAULT_ADMIN_ROLE", "LENDER_ROLE", "APPROVED_LENDER_ROLE"}

EmptyLender ==
    [lenderAddress |-> ZERO, companyName |-> "", licenseNumber |-> "", isApproved |-> FALSE,
     isActive |-> FALSE, totalRequests |-> 0, successfulRequests |-> 0,
     supportedRegions |-> <<>>, creditLimit |-> 0, interestRate |-> 0]
EmptyAccess ==
    [lender |-> ZERO, hasAccess |-> FALSE, requestLimit |-> 0, requestsUsed |-> 0,
     resetTime |-> 0, accessLevel |-> ""]

LPInit ==
    /\ lpRoles = [r \in LPRoleNames |-> IF r = "DEFAULT_ADMIN_ROLE" THEN {Admin} ELSE {}]
    /\ lenders = [a \in LPAddr |-> EmptyLender]
    /\ creditRequests = <<>>
    /\ apiAccess = [a \in LPAddr |-> EmptyAccess]
    /\ batchRequests = <<>>
    /\ lenderRequests = [a \in LPAddr |-> <<>>]
    /\ pendingApprovals = [a \in LPAddr |-> FALSE]
    /\ nextRequestId = 1
    /\ nextBatchId = 1
    /\ registrationFee = InitRegistrationFee
    /\ apiRequestFee = InitApiRequestFee

registerLenderErr(caller, companyName, licenseNumber, value) ==
    IF ~(value >= registrationFee) THEN "Insufficient registration fee"
    ELSE IF companyName = "" THEN "Company name required"
    ELSE IF licenseNumber = "" THEN "License number required"
    ELSE IF lenders[caller].isActive THEN "Already registered"
    ELSE OK

registerLender(caller, companyName, licenseNumber, supportedRegions, creditLimit, interestRate, value) ==
    IF registerLenderErr(caller, companyName, licenseNumber, value) # OK
    THEN Revert
    ELSE /\ lenders' = [lenders EXCEPT ![caller] =
                [lenderAddress |-> caller, companyName |-> companyName,
                 licenseNumber |-> licenseNumber, isApproved |-> FALSE, isActive |-> TRUE,
                 totalRequests |-> 0, successfulRequests |-> 0,
                 supportedRegions |-> supportedRegions, creditLimit |-> creditLimit,
                 interestRate |-> interestRate]]
         /\ pendingApprovals' = [pendingApprovals EXCEPT ![caller] = TRUE]
         /\ lpRoles' = [lpRoles EXCEPT !["LENDER_ROLE"] = @ \cup {caller}]
         /\ last' = Outcome("registerLender", caller,
                            <<companyName, licenseNumber, creditLimit, interestRate, value>>,
                            <<"RoleGranted", "LenderRegistered">>, 0)
         /\ UNCHANGED <<now, creditRequests, apiAccess, batchRequests, lenderRequests,
                        nextRequestId, nextBatchId, registrationFee, apiRequestFee, notLP>>

\* A portal that approves an identity without asking whether it registered.
approveLenderErrNoRegisteredCheck(caller, lender) ==
    IF caller \notin lpRoles["DEFAULT_ADMIN_ROLE"] THEN "AccessControl: missing role"
    ELSE IF lenders[lender].isApproved THEN "Already approved"
    ELSE OK

approveLenderErr(caller, lender) ==
    IF caller \notin lpRoles["DEFAULT_ADMIN_ROLE"] THEN "AccessControl: missing role"
    ELSE IF ~lenders[lender].isActive THEN "Lender not registered"
    ELSE IF lenders[lender].isApproved THEN "Already approved"
    ELSE OK

approveLender(caller, lender) ==
    IF approveLenderErr(caller, lender) # OK
    THEN Revert
    ELSE /\ lenders' = [lenders EXCEPT ![lender].isApproved = TRUE]
         /\ pendingApprovals' = [pendingApprovals EXCEPT ![lender] = FALSE]
         /\ lpRoles' = [lpRoles EXCEPT !["APPROVED_LENDER_ROLE"] = @ \cup {lender}]
         /\ last' = Outcome("approveLender", caller, <<lender>>,
                            <<"RoleGranted", "LenderApproved">>, 0)
         /\ UNCHANGED <<now, creditRequests, apiAccess, batchRequests, lenderRequests,
                        nextRequestId, nextBatchId, registrationFee, apiRequestFee, notLP>>

\* The quota of an access level; 0 stands for the reverting else branch.
TierLimit(accessLevel) ==
    IF accessLevel = "basic" THEN BASIC_LIMIT
    ELSE IF accessLevel = "premium" THEN PREMIUM_LIMIT
    ELSE IF accessLevel = "enterprise" THEN ENTERPRISE_LIMIT
    ELSE 0


\* A portal that issues a grant for any access level it is asked for.
requestAPIAccessErrAnyTier(caller, accessLevel) ==
    IF caller \notin lpRoles["APPROVED_LENDER_ROLE"] THEN "AccessControl: missing role"
    ELSE IF ~lenders[caller].isApproved THEN "Lender not approved"
    ELSE OK

requestAPIAccessErr(caller, accessLevel) ==
    IF caller \notin lpRoles["APPROVED_LENDER_ROLE"] THEN "AccessControl: missing role"
    ELSE IF ~lenders[caller].isApproved THEN "Lender not approved"
    ELSE IF accessLevel \notin {"basic", "premium", "enterprise"} THEN "Invalid access level"
    ELSE OK

requestAPIAccess(caller, accessLevel) ==
    IF requestAPIAccessErr(caller, accessLevel) # OK
    THEN Revert
    ELSE /\ apiAccess' = [apiAccess EXCEPT ![caller] =
                [lender |-> caller, hasAccess |-> TRUE, requestLimit |-> TierLimit(accessLevel),
                 requestsUsed |-> 0, resetTime |-> now + THIRTY_DAYS,
                 accessLevel |-> accessLevel]]
         /\ last' = Outcome("requestAPIAccess", caller, <<accessLevel>>,
                            <<"APIAccessGranted">>, 0)
         /\ UNCHANGED <<now, lpRoles, lenders, creditRequests, batchRequests, lenderRequests,
                        pendingApprovals, nextRequestId, nextBatchId, registrationFee,
                        apiRequestFee, notLP>>

\* The record a request is created with, before it is processed.
NewRequest(requestId, lender, borrower, requestedAmount) ==
    [requestId |-> requestId, lender |-> lender, borrower |-> borrower,
     requestedAmount |-> requestedAmount, isProcessed |-> FALSE, isApproved |-> FALSE,
     creditScore |-> 0, riskAssessment |-> "", approvedAmount |-> 0, interestRate |-> 0]

\* A portal that asks for more than the low-risk threshold before it grants
\* the full amount.
processCreditRequestStrictLow(request, baseRate) ==
    IF getScoreErr(Portal, request.borrower) = OK
    THEN LET score == scores[request.borrower].score
         IN IF score > LOW_RISK_SCORE
            THEN [request EXCEPT !.creditScore = score, !.isApproved = TRUE,
                                 !.approvedAmount = request.requestedAmount,
                                 !.interestRate = baseRate,
                                 !.riskAssessment = "Low Risk", !.isProcessed = TRUE]
            ELSE IF score >= MEDIUM_RISK_SCORE
            THEN [request EXCEPT !.creditScore = score, !.isApproved = TRUE,
                                 !.approvedAmount = request.requestedAmount \div 2,
                                 !.interestRate = baseRate + MEDIUM_RISK_PREMIUM,
                                 !.riskAssessment = "Medium Risk", !.isProcessed = TRUE]
            ELSE [request EXCEPT !.creditScore = score, !.isApproved = FALSE,
                                 !.approvedAmount = 0,
                                 !.riskAssessment = "High Risk", !.isProcessed = TRUE]
    ELSE [request EXCEPT !.creditScore = 0, !.isApproved = FALSE,
                         !.riskAssessment = "No Credit History", !.isProcessed = TRUE]


\* A portal whose lookup is made in the name of the submitting lender.
processCreditRequestAsLender(request, baseRate) ==
    IF getScoreErr(request.lender, request.borrower) = OK
    THEN LET score == scores[request.borrower].score
         IN IF score >= LOW_RISK_SCORE
            THEN [request EXCEPT !.creditScore = score, !.isApproved = TRUE,
                                 !.approvedAmount = request.requestedAmount,
                                 !.interestRate = baseRate,
                                 !.riskAssessment = "Low Risk", !.isProcessed = TRUE]
            ELSE IF score >= MEDIUM_RISK_SCORE
            THEN [request EXCEPT !.creditScore = score, !.isApproved = TRUE,
                                 !.approvedAmount = request.requestedAmount \div 2,
                                 !.interestRate = baseRate + MEDIUM_RISK_PREMIUM,
                                 !.riskAssessment = "Medium Risk", !.isProcessed = TRUE]
            ELSE [request EXCEPT !.creditScore = score, !.isApproved = FALSE,
                                 !.approvedAmount = 0,
                                 !.riskAssessment = "High Risk", !.isProcessed = TRUE]
    ELSE [request EXCEPT !.creditScore = 0, !.isApproved = FALSE,
                         !.approvedAmount = 0,
                         !.riskAssessment = "No Credit History", !.isProcessed = TRUE]

\* _processCreditRequest on the request record: the registry is asked for the
\* borrower's score by the portal itself, and any revert of that call lands
\* in the catch branch.
processCreditRequest(request, baseRate) ==
    IF getScoreErr(Portal, request.borrower) = OK
    THEN LET score == scores[request.borrower].score
         IN IF score >= LOW_RISK_SCORE
            THEN [request EXCEPT !.creditScore = score, !.isApproved = TRUE,
                                 !.approvedAmount = request.requestedAmount,
                                 !.interestRate = baseRate,
                                 !.riskAssessment = "Low Risk", !.isProcessed = TRUE]
            ELSE IF score >= MEDIUM_RISK_SCORE
            THEN [request EXCEPT !.creditScore = score, !.isApproved = TRUE,
                                 !.approvedAmount = request.requestedAmount \div 2,
                                 !.interestRate = baseRate + MEDIUM_RISK_PREMIUM,
                                 !.riskAssessment = "Medium Risk", !.isProcessed = TRUE]
            ELSE [request EXCEPT !.creditScore = score, !.isApproved = FALSE,
                                 !.approvedAmount = 0,
                                 !.riskAssessment = "High Risk", !.isProcessed = TRUE]
    ELSE [request EXCEPT !.creditScore = 0, !.isApproved = FALSE,
                         !.riskAssessment = "No Credit History", !.isProcessed = TRUE]

\* A portal that takes a single request without looking at the quota.
submitCreditRequestErrNoQuota(caller, borrower, requestedAmount, value) ==
    IF caller \notin lpRoles["APPROVED_LENDER_ROLE"] THEN "AccessControl: missing role"
    ELSE IF ~(value >= apiRequestFee) THEN "Insufficient API fee"
    ELSE IF borrower = ZERO THEN "Invalid borrower address"
    ELSE IF ~(requestedAmount > 0) THEN "Invalid amount"
    ELSE IF ~apiAccess[caller].hasAccess THEN "No API access"
    ELSE OK


\* A portal in which a reverting score lookup aborts the submission.
submitCreditRequestErrLookupAborts(caller, borrower, requestedAmount, value) ==
    IF caller \notin lpRoles["APPROVED_LENDER_ROLE"] THEN "AccessControl: missing role"
    ELSE IF ~(value >= apiRequestFee) THEN "Insufficient API fee"
    ELSE IF borrower = ZERO THEN "Invalid borrower address"
    ELSE IF ~(requestedAmount > 0) THEN "Invalid amount"
    ELSE IF ~apiAccess[caller].hasAccess THEN "No API access"
    ELSE IF ~(apiAccess[caller].requestsUsed < apiAccess[caller].requestLimit)
         THEN "Request limit exceeded"
    ELSE getScoreErr(Portal, borrower)

submitCreditRequestErr(caller, borrower, requestedAmount, value) ==
    IF caller \notin lpRoles["APPROVED_LENDER_ROLE"] THEN "AccessControl: missing role"
    ELSE IF ~(value >= apiRequestFee) THEN "Insufficient API fee"
    ELSE IF borrower = ZERO THEN "Invalid borrower address"
    ELSE IF ~(requestedAmount > 0) THEN "Invalid amount"
    ELSE IF ~apiAccess[caller].hasAccess THEN "No API access"
    ELSE IF ~(apiAccess[caller].requestsUsed < apiAccess[caller].requestLimit)
         THEN "Request limit exceeded"
    ELSE OK

\* The caller's grant after the window check and the increment.
AccessAfterUse(access) ==
    IF now >= access.resetTime
    THEN [access EXCEPT !.requestsUsed = 0 + 1, !.resetTime = now + THIRTY_DAYS]
    ELSE [access EXCEPT !.requestsUsed = @ + 1]

submitCreditRequest(caller, borrower, requestedAmount, value) ==
    IF submitCreditRequestErr(caller, borrower, requestedAmount, value) # OK
    THEN Revert
    ELSE LET requestId == nextRequestId
             done == processCreditRequest(
                         NewRequest(requestId, caller, borrower, requestedAmount),
                         lenders[caller].interestRate)
         IN /\ apiAccess' = [apiAccess EXCEPT ![caller] = AccessAfterUse(@)]
            /\ nextRequestId' = nextRequestId + 1
            /\ creditRequests' = Append(creditRequests, done)
            /\ lenderRequests' = [lenderRequests EXCEPT ![caller] = Append(@, requestId)]
            /\ lenders' = [lenders EXCEPT
                             ![caller].totalRequests = @ + 1,
                             ![caller].successfulRequests =
                                 IF done.isApproved THEN @ + 1 ELSE @]
            /\ last' = Outcome("submitCreditRequest", caller,
                               <<borrower, requestedAmount, value>>,
                               <<"CreditRequestSubmitted", "CreditRequestProcessed">>,
                               requestId)
            /\ UNCHANGED <<now, lpRoles, batchRequests, pendingApprovals, nextBatchId,
                           registrationFee, apiRequestFee, notLP>>

\* submitCreditRequest up to the registry lookup of _processCreditRequest:
\* the quota is charged and the request stored unprocessed; the portal then
\* waits for creditRegistry.getScore to return.
submitCreditRequestEnterErr(caller, borrower, requestedAmount, value) ==
    IF InStaticCall THEN "state change inside a static call"
    ELSE submitCreditRequestErr(caller, borrower, requestedAmount, value)

submitCreditRequestEnter(caller, borrower, requestedAmount, value) ==
    IF submitCreditRequestEnterErr(caller, borrower, requestedAmount, value) # OK
    THEN Revert
    ELSE LET requestId == nextRequestId
         IN /\ apiAccess' = [apiAccess EXCEPT ![caller] = AccessAfterUse(@)]
            /\ nextRequestId' = nextRequestId + 1
            /\ creditRequests' = Append(creditRequests,
                    NewRequest(requestId, caller, borrower, requestedAmount))
            /\ lenderRequests' = [lenderRequests EXCEPT ![caller] = Append(@, requestId)]
            /\ lenders' = [lenders EXCEPT ![caller].totalRequests = @ + 1]
            /\ frames' = Append(frames,
                    [op |-> "submitCreditRequest", caller |-> caller,
                     requestId |-> requestId,
                     args |-> <<borrower, requestedAmount, value>>])
            /\ UNCHANGED <<now, last, lpRoles, batchRequests, pendingApprovals, nextBatchId,
                           registrationFee, apiRequestFee, dmStatus,
                           flVars, dmVars, csrVars>>

\* submitCreditRequest from the return (or revert) of the lookup to its end:
\* the stored request is decided and the id returned.
submitCreditRequestExit ==
    /\ frames # <<>>
    /\ frames[Len(frames)].op = "submitCreditRequest"
    /\ LET f == frames[Len(frames)]
           request == creditRequests[f.requestId]
           done == processCreditRequest(request, lenders[request.lender].interestRate)
       IN /\ creditRequests' = [creditRequests EXCEPT ![f.requestId] = done]
          /\ lenders' = [lenders EXCEPT
                           ![request.lender].successfulRequests =
                               IF done.isApproved THEN @ + 1 ELSE @]
          /\ frames' = SubSeq(frames, 1, Len(frames) - 1)
          /\ last' = Outcome("submitCreditRequest", f.caller, f.args,
                             <<"CreditRequestSubmitted", "CreditRequestProcessed">>,
                             f.requestId)
          /\ UNCHANGED <<now, lpRoles, apiAccess, batchRequests, lenderRequests,
                         pendingApprovals, nextRequestId, nextBatchId, registrationFee,
                         apiRequestFee, dmStatus, flVars, dmVars, csrVars>>

\* A portal that accepts a batch without looking at the quota.
submitBatchRequestErrNoQuota(caller, borrowers, requestedAmounts, value) ==
    IF caller \notin lpRoles["APPROVED_LENDER_ROLE"] THEN "AccessControl: missing role"
    ELSE IF Len(borrowers) # Len(requestedAmounts) THEN "Array length mismatch"
    ELSE IF ~(Len(borrowers) <= MAX_BATCH) THEN "Batch too large"
    ELSE IF ~(value >= apiRequestFee * Len(borrowers)) THEN "Insufficient fee"
    ELSE IF ~apiAccess[caller].hasAccess THEN "No API access"
    ELSE OK

submitBatchRequestErr(caller, borrowers, requestedAmounts, value) ==
    IF caller \notin lpRoles["APPROVED_LENDER_ROLE"] THEN "AccessControl: missing role"
    ELSE IF Len(borrowers) # Len(requestedAmounts) THEN "Array length mismatch"
    ELSE IF ~(Len(borrowers) <= MAX_BATCH) THEN "Batch too large"
    ELSE IF ~(value >= apiRequestFee * Len(borrowers)) THEN "Insufficient fee"
    ELSE IF ~apiAccess[caller].hasAccess THEN "No API access"
    ELSE IF ~(apiAccess[caller].requestsUsed + Len(borrowers)
                 <= apiAccess[caller].requestLimit)
         THEN "Request limit exceeded"
    ELSE OK

\* A portal whose batch loop decides every stored request again before it
\* adds its own.
BatchProcessedRedecidingAll(lender, borrowers, requestedAmounts) ==
    LET n == Len(borrowers)
        done == [k \in 1..n |->
                    processCreditRequest(
                        NewRequest(nextRequestId + (k - 1), lender, borrowers[k],
                                   requestedAmounts[k]),
                        lenders[lender].interestRate)]
        again == [i \in 1..Len(creditRequests) |->
                    processCreditRequest(
                        NewRequest(i, creditRequests[i].lender, creditRequests[i].borrower,
                                   creditRequests[i].requestedAmount),
                        lenders[creditRequests[i].lender].interestRate)]
    IN [creditRequests |-> again \o done,
        lenderRequests |-> lenderRequests[lender] \o [k \in 1..n |-> nextRequestId + (k - 1)],
        successfulRequests |-> lenders[lender].successfulRequests
                                 + Cardinality({k \in 1..n : done[k].isApproved})]


\* A portal whose batch loop hands out the ids of a batch from the last item
\* to the first.
BatchProcessedIdsReversed(lender, borrowers, requestedAmounts) ==
    LET n == Len(borrowers)
        done == [k \in 1..n |->
                    processCreditRequest(
                        NewRequest(nextRequestId + (n - k), lender, borrowers[k],
                                   requestedAmounts[k]),
                        lenders[lender].interestRate)]
    IN [creditRequests |-> creditRequests \o done,
        lenderRequests |-> lenderRequests[lender] \o [k \in 1..n |-> nextRequestId + (k - 1)],
        successfulRequests |-> lenders[lender].successfulRequests
                                 + Cardinality({k \in 1..n : done[k].isApproved})]


\* A portal whose batch loop leaves the lender's count of approvals alone.
BatchProcessedApprovalsUncounted(lender, borrowers, requestedAmounts) ==
    LET n == Len(borrowers)
        done == [k \in 1..n |->
                    processCreditRequest(
                        NewRequest(nextRequestId + (k - 1), lender, borrowers[k],
                                   requestedAmounts[k]),
                        lenders[lender].interestRate)]
    IN [creditRequests |-> creditRequests \o done,
        lenderRequests |-> lenderRequests[lender] \o [k \in 1..n |-> nextRequestId + (k - 1)],
        successfulRequests |-> lenders[lender].successfulRequests]

\* _processBatchRequest: iteration k of the loop takes id nextRequestId + k - 1,
\* stores the processed request, appends the id to the lender's list and
\* counts an approval.  No iteration reads what an earlier one wrote, so the
\* loop's result is written here item by item, in input order.
BatchProcessed(lender, borrowers, requestedAmounts) ==
    LET n == Len(borrowers)
        done == [k \in 1..n |->
                    processCreditRequest(
                        NewRequest(nextRequestId + (k - 1), lender, borrowers[k],
                                   requestedAmounts[k]),
                        lenders[lender].interestRate)]
    IN [creditRequests |-> creditRequests \o done,
        lenderRequests |-> lenderRequests[lender] \o [k \in 1..n |-> nextRequestId + (k - 1)],
        successfulRequests |-> lenders[lender].successfulRequests
                                 + Cardinality({k \in 1..n : done[k].isApproved})]

submitBatchRequest(caller, borrowers, requestedAmounts, value) ==
    IF submitBatchRequestErr(caller, borrowers, requestedAmounts, value) # OK
    THEN Revert
    ELSE LET batchId == nextBatchId
             n == Len(borrowers)
             after == BatchProcessed(caller, borrowers, requestedAmounts)
         IN /\ nextBatchId' = nextBatchId + 1
            /\ batchRequests' = Append(batchRequests,
                    [batchId |-> batchId, lender |-> caller, borrowers |-> borrowers,
                     requestedAmounts |-> requestedAmounts, isProcessed |-> TRUE,
                     processedCount |-> n])
            /\ apiAccess' = [apiAccess EXCEPT ![caller].requestsUsed = @ + n]
            /\ nextRequestId' = nextRequestId + n
            /\ creditRequests' = after.creditRequests
            /\ lenderRequests' = [lenderRequests EXCEPT ![caller] = after.lenderRequests]
            /\ lenders' = [lenders EXCEPT
                             ![caller].totalRequests = @ + n,
                             ![caller].successfulRequests = after.successfulRequests]
            /\ last' = Outcome("submitBatchRequest", caller,
                               <<borrowers, requestedAmounts, value>>,
                               <<"BatchRequestSubmitted">>
                                   \o [i \in 1..n |-> "CreditRequestProcessed"],
                               batchId)
            /\ UNCHANGED <<now, lpRoles, pendingApprovals, registrationFee, apiRequestFee,
                           notLP>>

lpAdminErr(caller) ==
    IF caller \notin lpRoles["DEFAULT_ADMIN_ROLE"] THEN "AccessControl: missing role" ELSE OK

updateRegistrationFee(caller, newFee) ==
    IF lpAdminErr(caller) # OK
    THEN Revert
    ELSE /\ registrationFee' = newFee
         /\ last' = Outcome("updateRegistrationFee", caller, <<newFee>>, <<>>, 0)
         /\ UNCHANGED <<now, lpRoles, lenders, creditRequests, apiAccess, batchRequests,
                        lenderRequests, pendingApprovals, nextRequestId, nextBatchId,
                        apiRequestFee, notLP>>

updateAPIRequestFee(caller, newFee) ==
    IF lpAdminErr(caller) # OK
    THEN Revert
    ELSE /\ apiRequestFee' = newFee
         /\ last' = Outcome("updateAPIRequestFee", caller, <<newFee>>, <<>>, 0)
         /\ UNCHANGED <<now, lpRoles, lenders, creditRequests, apiAccess, batchRequests,
                        lenderRequests, pendingApprovals, nextRequestId, nextBatchId,
                        registrationFee, notLP>>

LPTick ==
    /\ now < MaxPeriods * THIRTY_DAYS
    /\ now' = now + THIRTY_DAYS
    /\ UNCHANGED <<last, flVars, dmVars, csrVars, lpVars, callVars>>

\* Requests made by single calls so far: all requests less those of batches.
SinglesSubmitted ==
    Len(creditRequests)
      - Cardinality({<<b, k>> \in (1..Len(batchRequests)) \X (1..(MAX_BATCH + 1)) :
                        k <= batchRequests[b].processedCount})

Uniform(n, x) == [i \in 1..n |-> x]
RegisterInputs == {<<"Acme", "L-1", InitRegistrationFee>>, <<"", "L-1", InitRegistrationFee>>,
                   <<"Acme", "", InitRegistrationFee>>, <<"Acme", "L-1", InitRegistrationFee - 1>>}
TierInputs == {"basic", "premium", "enterprise", "gold"}
RequestInputs == {<<"b1", 1001, 0>>, <<ZERO, 1001, 0>>, <<"b1", 0, 0>>,
                  <<"b1", 1001, 1>>}
BatchInputs == {<< <<"b1", "b2">>, <<1001, 1001>>, 0 >>,
                << <<"b1", "b2">>, <<1001>>, 0 >>,
                << <<"b1", "b2">>, <<1001, 1001>>, 1 >>,
                << <<ZERO>>, <<0>>, 0 >>,
                << <<>>, <<>>, 0 >>,
                << Uniform(MAX_BATCH, "b1"), Uniform(MAX_BATCH, 1001), 0 >>,
                << Uniform(MAX_BATCH + 1, "b1"), Uniform(MAX_BATCH + 1, 1001), 0 >>}
FeeInputs == {InitApiRequestFee, 2 * InitApiRequestFee}
LPScoreInputs == {649, 650, 699, 700}

\* The identity "l2" never registers: one call of each kind stands for it.
LPNext ==
    \/ \E c \in {"l1"}, x \in RegisterInputs :
          registerLender(c, x[1], x[2], <<"EU">>, 5000, 500, x[3])
    \/ \E x \in {<<Admin, "l1">>, <<Admin, "l2">>, <<"l1", "l1">>} : approveLender(x[1], x[2])
    \/ \E x \in ({"l1"} \X TierInputs) \cup {<<"l2", "basic">>} : requestAPIAccess(x[1], x[2])
    \/ \E c \in {"l1", "l2"}, x \in RequestInputs :
          /\ c = "l2" => x = <<"b1", 1001, 0>>
          /\ SinglesSubmitted < MaxSingles
                \/ submitCreditRequestErr(c, x[1], x[2], apiRequestFee - x[3]) # OK
          /\ submitCreditRequest(c, x[1], x[2], apiRequestFee - x[3])
    \/ \E c \in {"l1", "l2"}, x \in BatchInputs :
          /\ c = "l2" => x = << <<"b1", "b2">>, <<1001, 1001>>, 0 >>
          /\ Len(batchRequests) < MaxBatches
                \/ submitBatchRequestErr(c, x[1], x[2], apiRequestFee * Len(x[1]) - x[3]) # OK
          /\ submitBatchRequest(c, x[1], x[2], apiRequestFee * Len(x[1]) - x[3])
    \/ \E sc \in LPScoreInputs :
          /\ scores["b1"].version < MaxScoreUpdates
          /\ updateScore(Admin, "b1", sc)
    \/ grantLenderRole(Admin, Portal)
    \/ grantLenderAccess("b1", Portal)
    \/ \E x \in ({Admin} \X FeeInputs) \cup {<<"l1", InitApiRequestFee>>} :
          updateAPIRequestFee(x[1], x[2])
    \/ LPTick

\* ====================================================================
\*  Calls in flight
\*  purchaseProduct and submitCreditRequest are the two entry points that
\*  call another contract before they return, so they are followed in two
\*  steps with whatever the ledger accepts in between.  submitModelUpdate
\*  and aggregateModel call no other contract: nothing can run before they
\*  return, and each stays one step.  block.timestamp cannot move while a
\*  call is in flight.
\* ====================================================================
ReentryTick ==
    /\ frames = <<>>
    /\ now < MaxNowReentry
    /\ now' = now + 1
    /\ UNCHANGED <<last, flVars, dmVars, csrVars, lpVars, callVars>>

ReentryNext ==
    \/ Call(nextProductId <= MaxProducts /\ listProduct("s1", "p", 100, HASH))
    \/ \E c \in {"b1", "b2"}, tokenOk \in BOOLEAN :
          /\ Len(frames) < MaxDepth
          /\ purchaseProductEnter(c, 1, tokenOk)
    \/ purchaseProductExit
    \/ Call(updateProductPrice("s1", 1, 40))
    \/ Call(registerLender("l1", "Acme", "L-1", <<"EU">>, 5000, 500, InitRegistrationFee))
    \/ Call(approveLender(Admin, "l1"))
    \/ Call(requestAPIAccess("l1", "basic"))
    \/ /\ Len(frames) < MaxDepth
       /\ IF submitCreditRequestEnterErr("l1", "b1", 1001, apiRequestFee) # OK THEN TRUE
          ELSE Len(creditRequests) < MaxReentryRequests
       /\ submitCreditRequestEnter("l1", "b1", 1001, apiRequestFee)
    \/ submitCreditRequestExit
    \/ Call(registerNode("n1"))
    \/ Call(currentRound <= 1 /\ startTrainingRound(Admin, 1, 1, 1, 0, TRUE))
    \/ Call(submitModelUpdate("n1", HASH, HASH, InitMinStake))
    \/ Call(aggregateModel(Admin, 1, HASH, 10000))
    \/ ReentryTick

\* ====================================================================
\*  The id counters of the portal and of the marketplace followed together:
\*  two products, their purchases by one buyer, single requests and batches of
\*  two in any order, and of each kind one call that is rejected.
\* ====================================================================
IdBatchInputs == {<< <<"b1", "b2">>, <<1001, 1002>> >>, << <<"b1", "b2">>, <<1001>> >>,
                  << <<>>, <<>> >>}

IdsNext ==
    \/ \E price \in {100, 0} :
          /\ nextProductId <= MaxProducts + 1
          /\ listProduct("s1", "p", price, HASH)
    \/ \E p \in 1..(MaxProducts + 1) :
          /\ IF purchaseProductErr("b1", p, TRUE) # OK THEN TRUE
             ELSE Len(purchases) < MaxIdPurchases
          /\ purchaseProduct("b1", p, TRUE)
    \/ registerLender("l1", "Acme", "L-1", <<"EU">>, 5000, 500, InitRegistrationFee)
    \/ approveLender(Admin, "l1")
    \/ requestAPIAccess("l1", "basic")
    \/ \E b \in {"b1", ZERO} :
          /\ IF submitCreditRequestErr("l1", b, 1001, apiRequestFee) # OK THEN TRUE
             ELSE Len(creditRequests) < MaxIdRequests
          /\ submitCreditRequest("l1", b, 1001, apiRequestFee)
    \/ \E x \in IdBatchInputs :
          /\ IF submitBatchRequestErr("l1", x[1], x[2], apiRequestFee * Len(x[1])) # OK
             THEN TRUE
             ELSE /\ Len(creditRequests) + Len(x[1]) <= MaxIdRequests
                  /\ Len(batchRequests) < MaxIdBatches
          /\ submitBatchRequest("l1", x[1], x[2], apiRequestFee * Len(x[1]))

\* ====================================================================
\*  The portal's lookup under every combination of registry grants: the
\*  lender role and the borrower's grant, each given to the submitting
\*  lender or to the portal, the borrower's grant also withdrawn again.
\* ====================================================================
LookupNext ==
    \/ registerLender("l1", "Acme", "L-1", <<"EU">>, 5000, 500, InitRegistrationFee)
    \/ approveLender(Admin, "l1")
    \/ requestAPIAccess("l1", "basic")
    \/ \E sc \in {649, 700} :
          /\ scores["b1"].version < MaxLookupScores
          /\ updateScore(Admin, "b1", sc)
    \/ \E l \in {"l1", Portal} : grantLenderRole(Admin, l)
    \/ \E l \in {"l1", Portal} : grantLenderAccess("b1", l)
    \/ \E l \in {"l1", Portal} : revokeLenderAccess("b1", l)
    \/ /\ IF submitCreditRequestErr("l1", "b1", 1001, apiRequestFee) # OK THEN TRUE
          ELSE Len(creditRequests) < MaxLookupRequests
       /\ submitCreditRequest("l1", "b1", 1001, apiRequestFee)

NoCall == Outcome("none", ZERO, <<>>, <<>>, 0)

Init ==
    /\ now = 0
    /\ last = NoCall
    /\ FLInit
    /\ DMInit
    /\ CSRInit
    /\ LPInit
    /\ CallInit

SpecFL == Init /\ [][FLNext]_vars
SpecFLSlash == Init /\ [][FLSlashNext]_vars
SpecDM == Init /\ [][DMNext]_vars
SpecCSR == Init /\ [][CSRNext]_vars
SpecCSRConsent == Init /\ [][CSRConsentNext]_vars
SpecLP == Init /\ [][LPNext]_vars
SpecReentry == Init /\ [][ReentryNext]_vars
SpecIds == Init /\ [][IdsNext]_vars
SpecLookup == Init /\ [][LookupNext]_vars

Next ==
    \/ FLNext \/ DMNext \/ CSRNext \/ LPNext
    \/ \E c \in {Admin, "l1"}, f \in {InitRegistrationFee, 2 * InitRegistrationFee} :
          updateRegistrationFee(c, f)
Spec == Init /\ [][Next]_vars

\* ====================================================================
\*  Properties of the FederatedLearningCoordinator
\* ====================================================================

\* C1: for every round and node, validateModelUpdate succeeds at most once,
\* whatever the verdict, so the reputation changes once per (round, node).
C1_ValidatedAtMostOnce ==
    \A r \in RoundIds, n \in FLAddr : validations[r][n] <= 1

AggregateCalls == FLAddr \X RoundIds \X {ZEROHASH, HASH} \X {10000, 10001}

\* The state a committed aggregateModel(roundId, ...) leaves: the round's model is
\* published and active, the preceding round's model is inactive, the round is closed.
AggregatePublished ==
    last.op = "aggregateModel" =>
        LET r == last.args[1]
        IN /\ models[r].isActive
           /\ models[r].round = r
           /\ models[r].modelHash = last.args[2]
           /\ models[r].participantCount = trainingRounds[r].currentParticipants
           /\ r > 1 => ~models[r - 1].isActive
           /\ ~trainingRounds[r].isActive

\* aggregateModel fails while now <= the round's end and, after it, while the
\* participant count is below minParticipants.
AggregateTooEarlyOrNoQuorum ==
    \A x \in AggregateCalls :
        LET round == trainingRounds[x[2]]
        IN (now <= round.endTime \/ round.currentParticipants < round.minParticipants)
               => aggregateModelErr(x[1], x[2], x[3], x[4]) # OK

\* C4, as claimed: aggregateModel fails while now <= end and below the quorum; with
\* the participant count exactly minParticipants, accuracy <= 10000, an aggregator
\* calling and the round still active it succeeds, publishing the round's model and
\* deactivating the preceding one.
C4_AggregateAsClaimed ==
    /\ AggregateTooEarlyOrNoQuorum
    /\ AggregatePublished
    /\ \A x \in AggregateCalls :
           LET round == trainingRounds[x[2]]
           IN (/\ now > round.endTime
               /\ round.isActive
               /\ round.currentParticipants = round.minParticipants
               /\ x[4] <= 10000
               /\ x[1] \in flRoles["AGGREGATOR_ROLE"])
                  => aggregateModelErr(x[1], x[2], x[3], x[4]) = OK

\* C4, amended: the same, for a call whose model hash is not zero.
C4_AggregateAtQuorum ==
    /\ AggregateTooEarlyOrNoQuorum
    /\ AggregatePublished
    /\ \A x \in AggregateCalls :
           LET round == trainingRounds[x[2]]
           IN (/\ now > round.endTime
               /\ round.isActive
               /\ round.currentParticipants = round.minParticipants
               /\ x[4] <= 10000
               /\ x[3] # ZEROHASH
               /\ x[1] \in flRoles["AGGREGATOR_ROLE"])
                  => aggregateModelErr(x[1], x[2], x[3], x[4]) = OK

\* Round 2 was aggregated with exactly minParticipants updates, after round 1
\* had published a model.
C4_Witness ==
    /\ last.op = "aggregateModel"
    /\ last.args[1] = 2
    /\ models[2].isActive
    /\ models[2].participantCount = trainingRounds[2].minParticipants
    /\ models[1].modelHash # ZEROHASH
    /\ ~models[1].isActive


\* ====================================================================
\*  Properties of the DataMarketplace
\* ====================================================================
PurchasesOf(buyer, productId) ==
    {i \in 1..Len(purchases) :
        purchases[i].buyer = buyer /\ purchases[i].productId = productId}
BuyersOf(productId) == {b \in DMAddr : PurchasesOf(b, productId) # {}}
ReviewsBy(reviewer, productId) ==
    {i \in 1..Len(productReviews[productId]) :
        productReviews[productId][i].reviewer = reviewer}

\* C5: every (buyer, product) pair has at most one Purchase record; a further
\* purchaseProduct by a buyer holding one fails; totalSales of a product is the
\* number of distinct buyers that purchased it.
C5_OnePurchasePerBuyerAndProduct ==
    \A p \in ProductIds :
        /\ \A b \in DMAddr :
              /\ Cardinality(PurchasesOf(b, p)) <= 1
              /\ PurchasesOf(b, p) # {} =>
                    \A tokenOk \in BOOLEAN : purchaseProductErr(b, p, tokenOk) # OK
        /\ products[p].totalSales = Cardinality(BuyersOf(p))

\* Both buyers purchased product 1.
C5_Witness ==
    /\ last.op = "purchaseProduct"
    /\ BuyersOf(1) = {"b1", "b2"}
    /\ products[1].totalSales = 2

\* C6: submitReview is accepted only from a caller that purchased the product and
\* has no review of it yet, so a second review by the same reviewer fails (leaving
\* rating and reviewCount as they are) and every (reviewer, product) pair has at
\* most one review.
C6_OneReviewPerReviewerAndProduct ==
    \A p \in ProductIds, c \in DMAddr :
        /\ Cardinality(ReviewsBy(c, p)) <= 1
        /\ ReviewsBy(c, p) # {} => PurchasesOf(c, p) # {}
        /\ \A r \in 0..6, comment \in {"", "c"} :
              submitReviewErr(c, p, r, comment) = OK
                  => (PurchasesOf(c, p) # {} /\ ReviewsBy(c, p) = {})

\* Both buyers reviewed product 1, b2 first.
C6_Witness ==
    /\ last.op = "submitReview"
    /\ Len(productReviews[1]) = 2
    /\ productReviews[1][1].reviewer = "b2"
    /\ productReviews[1][2].reviewer = "b1"

\* The truncated running average of the first k stored ratings, scaled by 100:
\* A(0) = 0, A(k) = floor((A(k-1) * (k-1) + r_k * 100) / k).
RECURSIVE RunningRating(_, _)
RunningRating(reviews, k) ==
    IF k = 0 THEN 0
    ELSE (RunningRating(reviews, k - 1) * (k - 1) + reviews[k].rating * 100) \div k

\* C7: a review with a rating r in 1..5 from a buyer that has not reviewed is
\* folded into the product's rating as floor((oldRating*oldCount + r*100) /
\* (oldCount+1)), reviewCount growing by 1; the first review sets rating to r*100.
C7_ReviewFoldsRating ==
    \A p \in 1..MaxProducts :
        /\ products[p].reviewCount = Len(productReviews[p])
        /\ products[p].rating = RunningRating(productReviews[p], Len(productReviews[p]))
        /\ \A c \in DMAddr, r \in 1..5 :
              (hasPurchased[c][p] /\ ReviewsBy(c, p) = {})
                  => submitReviewErr(c, p, r, "c") = OK


\* --------------------------------------------------------------------
\*  CreditScoreRegistry: updateScore and getScore
\* --------------------------------------------------------------------
InRange(score) == score >= 300 /\ score <= 850
IsOracle(caller) == caller \in csrRoles["ORACLE_ROLE"]

\* C9 as stated: for every caller, every non-null identity u and every
\* score s, updateScore(u, s) succeeds exactly when 300 <= s <= 850 and the
\* caller holds the oracle role.
C9_UpdateScoreAsClaimed ==
    \A c \in CSRAddr, u \in CSRAddr, sc \in ScoreInputs :
        (updateScoreErr(c, u, sc) = OK) <=> (InRange(sc) /\ IsOracle(c))

\* A committed updateScore was made by an oracle on a registry that was not
\* paused, for a non-null identity and a score in range; it wrote that score,
\* the block time and the caller into the identity's record, made it active,
\* advanced its version by one and touched no other identity's record.
UpdateScoreStep ==
    (last'.op = "updateScore" /\ scores' # scores) =>
        LET u == last'.args[1]
            sc == last'.args[2]
        IN /\ IsOracle(last'.caller) /\ ~paused /\ u # ZERO /\ InRange(sc)
           /\ scores'[u] = [score |-> sc, lastUpdated |-> now,
                            version |-> scores[u].version + 1, isActive |-> TRUE,
                            updatedBy |-> last'.caller]
           /\ \A v \in CSRAddr \ {u} : scores'[v] = scores[v]

\* Whether updateScore(u, s) by c is accepted, for every caller, identity
\* (the null one included) and score.
UpdateScoreAccepted ==
    \A c \in CSRAddr, u \in CSRAddr \cup {ZERO}, sc \in ScoreInputs :
        (updateScoreErr(c, u, sc) = OK)
            <=> (InRange(sc) /\ IsOracle(c) /\ u # ZERO /\ ~paused)

\* C9 (amended): updateScore(u, s) succeeds exactly when 300 <= s <= 850, the
\* caller holds the oracle role, u is not the null identity and the registry
\* is not paused; a successful call writes s, the caller, the time and the
\* active flag into u's record and advances its version by one; every other
\* call is rejected and leaves every record as it was.
C9_UpdateScoreGuarded == [](UpdateScoreAccepted) /\ [][UpdateScoreStep]_vars

\* An oracle appointed after deployment has written a second score for b1.
C9_Witness ==
    /\ last.op = "updateScore" /\ last.caller = "o1"
    /\ scores["b1"].version = 2 /\ scores["b1"].updatedBy = "o1"

Unauthorized(caller, user) ==
    /\ caller # user
    /\ caller \notin csrRoles["LENDER_ROLE"]
    /\ ~lenderAccess[user][caller]

\* C10: for every caller c and non-null identity u, getScore(u) fails when c
\* is not u, holds no lender role and was not granted access by u, whether or
\* not u has a score; otherwise it returns the stored score when u's record
\* is active and fails with "No active score found" when no score was ever
\* set.  A getScore that returned gave an authorized caller the stored score.
C10_GetScoreAuthorization ==
    /\ \A c \in CSRAddr, u \in CSRAddr :
          /\ Unauthorized(c, u) => getScoreErr(c, u) = "Unauthorized access"
          /\ (~Unauthorized(c, u) /\ scores[u].isActive) => getScoreErr(c, u) = OK
          /\ (~Unauthorized(c, u) /\ scores[u].version = 0)
                => getScoreErr(c, u) = "No active score found"
    /\ last.op = "getScore" =>
          /\ ~Unauthorized(last.caller, last.args[1])
          /\ scores[last.args[1]].isActive
          /\ last.ret = scores[last.args[1]].score

\* A lender-role holder that b1 never granted access has read b1's score,
\* while another identity is still refused although the score exists.
C10_Witness ==
    /\ last.op = "getScore" /\ last.caller = "l1" /\ last.args = <<"b1">>
    /\ ~lenderAccess["b1"]["l1"] /\ last.ret = 850
    /\ Unauthorized("o1", "b1")

\* --------------------------------------------------------------------
\*  LenderPortal: decisioning, quota window, batch submission
\* --------------------------------------------------------------------
\* The decision fields of the request a submitCreditRequest just returned.
Decision(r) == <<r.isApproved, r.approvedAmount, r.interestRate, r.riskAssessment>>
LastRequest == creditRequests[last.ret]
BaseRate(r) == lenders[r.lender].interestRate

PortalMayRead(borrower) ==
    Portal \in csrRoles["LENDER_ROLE"] \/ lenderAccess[borrower][Portal]

C3_ExpiredWindowResetsOnNextUse ==
    \A l \in LPAddr :
        (/\ l \in lpRoles["APPROVED_LENDER_ROLE"]
         /\ apiAccess[l].hasAccess
         /\ now >= apiAccess[l].resetTime)
            => submitCreditRequestErr(l, "b1", 1001, apiRequestFee) = OK

\* The value sent with a batch input, and whether some listed reason for
\* rejection applies to it.
BatchValue(x) == apiRequestFee * Len(x[1]) - x[3]
BatchMustFail(c, x) ==
    \/ Len(x[1]) # Len(x[2])
    \/ Len(x[1]) > 100
    \/ BatchValue(x) < apiRequestFee * Len(x[1])
    \/ ~apiAccess[c].hasAccess
    \/ apiAccess[c].requestsUsed + Len(x[1]) > apiAccess[c].requestLimit

\* Every batch to which a listed reason applies is rejected.
BatchRejected ==
    \A c \in LPAddr, x \in BatchInputs :
        BatchMustFail(c, x) => submitBatchRequestErr(c, x[1], x[2], BatchValue(x)) # OK

\* What a submitBatchRequest may touch: the request and batch tables, the
\* lender's id list, usage and totals, and the two id counters.
BatchTouched ==
    <<creditRequests, batchRequests, lenderRequests, apiAccess, lenders, nextRequestId,
      nextBatchId>>

\* A step that adds a batch record is a submitBatchRequest to which no
\* listed reason applied; it adds one batch record and one request per pair
\* and advances usage, the lender's total and the request counter by the
\* number of pairs.  A step that adds no batch record and is not a
\* submitCreditRequest leaves request table and request counter alone.
BatchStep ==
    /\ batchRequests' # batchRequests =>
          LET c == last'.caller
              n == Len(last'.args[1])
          IN /\ last'.op = "submitBatchRequest"
             /\ Len(last'.args[1]) = Len(last'.args[2]) /\ n <= 100
             /\ last'.args[3] >= apiRequestFee * n
             /\ apiAccess[c].hasAccess
             /\ apiAccess[c].requestsUsed + n <= apiAccess[c].requestLimit
             /\ Len(batchRequests') = Len(batchRequests) + 1
             /\ nextBatchId' = nextBatchId + 1
             /\ Len(creditRequests') = Len(creditRequests) + n
             /\ nextRequestId' = nextRequestId + n
             /\ apiAccess'[c].requestsUsed = apiAccess[c].requestsUsed + n
             /\ lenders'[c].totalRequests = lenders[c].totalRequests + n
    /\ (batchRequests' = batchRequests /\ last'.op = "submitBatchRequest") =>
          BatchTouched' = BatchTouched

\* C8: a submitBatchRequest with mismatched lengths, more than 100 pairs, a
\* fee below the per-item fee times the count, no API access or a quota that
\* the batch would exceed is rejected, and only an accepted batch creates
\* request or batch records or moves usage, totals or the id counters.
C8_FailedBatchChangesNothing == [](BatchRejected) /\ [][BatchStep]_vars

\* The quota is used up by an accepted batch of 100: one batch record, 100
\* requests, and every further batch of two pairs is refused.
C8_Witness ==
    /\ Len(batchRequests) = 1 /\ Len(creditRequests) = 100 /\ nextBatchId = 2
    /\ apiAccess["l1"].requestsUsed = 100 /\ apiAccess["l1"].requestLimit = 100
    /\ submitBatchRequestErr("l1", <<"b1", "b2">>, <<1001, 1001>>, 2 * apiRequestFee)
          = "Request limit exceeded"

\* C11: in every reachable state every lender's usage counter is at most
\* its quota.
C11_UsageWithinQuota ==
    \A l \in LPAddr : apiAccess[l].requestsUsed <= apiAccess[l].requestLimit

\* A batch of 100 has just taken l1's usage to its basic quota of 100.
C11_Witness ==
    /\ last.op = "submitBatchRequest" /\ last.caller = "l1"
    /\ apiAccess["l1"].accessLevel = "basic"
    /\ apiAccess["l1"].requestsUsed = apiAccess["l1"].requestLimit

\* Rounds for which a model has been published.
AggregatedRounds == {r \in RoundIds : models[r].modelHash # ZEROHASH}

\* C12: in every reachable state at most one aggregated model is active, and
\* an active model belongs to the highest round aggregated so far.
C12_SingleActiveModel ==
    /\ Cardinality({r \in RoundIds : models[r].isActive}) <= 1
    /\ \A r \in RoundIds :
          models[r].isActive =>
              (r \in AggregatedRounds /\ \A q \in AggregatedRounds : q <= r)

\* Two rounds were aggregated: the model of round 2 is the active one and the
\* model of round 1 has been retired.
C12_Witness ==
    /\ AggregatedRounds = {1, 2}
    /\ models[2].isActive /\ ~models[1].isActive

\* C13: in every reachable state every training round has at most
\* maxParticipants participants, and its participant count is the number of
\* distinct nodes recorded as its participants.
C13_ParticipantsCounted ==
    \A r \in RoundIds :
        /\ trainingRounds[r].currentParticipants <= trainingRounds[r].maxParticipants
        /\ trainingRounds[r].currentParticipants
              = Cardinality(trainingRounds[r].participants)

\* A round limited to two participants is full: both nodes have submitted.
C13_Witness ==
    \E r \in RoundIds :
        /\ trainingRounds[r].maxParticipants = 2
        /\ trainingRounds[r].currentParticipants = 2
        /\ trainingRounds[r].participants = {"n1", "n2"}

\* Every submitModelUpdate that misses one of the listed conditions is
\* rejected.
SubmitRejected ==
    \A c \in FLAddr, u \in UpdateInputs :
        LET round == trainingRounds[currentRound]
        IN (\/ ~nodes[c].isActive
            \/ ~round.isActive
            \/ now > round.endTime
            \/ c \in round.participants
            \/ round.currentParticipants >= round.maxParticipants
            \/ u[3] < minStakeAmount)
               => submitModelUpdateErr(c, u[1], u[2], u[3]) # OK

\* A committed submitModelUpdate met every listed condition and added exactly
\* one to the round's participant count and to the node's contribution count.
SubmitStep ==
    (last'.op = "submitModelUpdate" /\ nodes' # nodes) =>
        LET c == last'.caller
            round == trainingRounds[currentRound]
        IN /\ nodes[c].isActive
           /\ round.isActive /\ now <= round.endTime
           /\ c \notin round.participants
           /\ round.currentParticipants < round.maxParticipants
           /\ last'.args[3] >= minStakeAmount
           /\ trainingRounds'[currentRound].currentParticipants
                 = round.currentParticipants + 1
           /\ trainingRounds'[currentRound].participants = round.participants \cup {c}
           /\ nodes'[c].totalContributions = nodes[c].totalContributions + 1
           /\ \A n \in FLAddr \ {c} : nodes'[n] = nodes[n]
           /\ \A r \in RoundIds \ {currentRound} : trainingRounds'[r] = trainingRounds[r]

\* C14: submitModelUpdate succeeds only for a registered node, in an active
\* current round whose end time has not passed, that the node has not yet
\* joined and that is not full, with a stake of at least the minimum; a
\* successful call raises the round's participant count and the node's
\* contribution count by exactly one, and a rejected call changes nothing.
C14_SubmitGuarded == [](SubmitRejected) /\ [][SubmitStep]_vars

\* n1 has just contributed to its second round.
C14_Witness ==
    /\ last.op = "submitModelUpdate" /\ last.caller = "n1"
    /\ nodes["n1"].totalContributions = 2
    /\ currentRound = 2 /\ trainingRounds[2].currentParticipants = 1

\* Every startTrainingRound is rejected while the current round is open.
StartRejectedWhileOpen ==
    trainingRounds[currentRound].isActive =>
        \A c \in FLAddr, p \in RoundParams, q \in PoolInputs :
            startTrainingRoundErr(c, p[1], p[2], p[3], q[1], q[2]) # OK

\* A startTrainingRound by an aggregator with duration > 0,
\* 0 < minParticipants <= maxParticipants and a reward pool that is empty or
\* that the token lets the coordinator collect.
ValidStarts ==
    {x \in FLAddr \X RoundParams \X PoolInputs :
        /\ x[1] \in flRoles["AGGREGATOR_ROLE"]
        /\ x[2][1] > 0 /\ x[2][2] > 0 /\ x[2][3] >= x[2][2]
        /\ (x[3][1] = 0 \/ x[3][2])}

\* An aggregated round is closed, lies below the round counter and rejects
\* every further aggregateModel.
AggregatedIsTerminal ==
    \A r \in AggregatedRounds :
        /\ ~trainingRounds[r].isActive
        /\ r < currentRound
        /\ \A x \in AggregateCalls : x[2] = r => aggregateModelErr(x[1], x[2], x[3], x[4]) # OK

\* Right after aggregateModel succeeded for round r the counter is r + 1 and
\* every valid startTrainingRound is accepted.
AggregatedEnablesNext ==
    last.op = "aggregateModel" =>
        /\ currentRound = last.args[1] + 1
        /\ \A x \in ValidStarts :
              startTrainingRoundErr(x[1], x[2][1], x[2][2], x[2][3], x[3][1], x[3][2]) = OK

\* No step reopens an aggregated round or replaces its published model.
AggregatedStays ==
    \A r \in AggregatedRounds :
        /\ r \in AggregatedRounds'
        /\ ~trainingRounds'[r].isActive
        /\ models'[r].modelHash = models[r].modelHash
        /\ models'[r].participantCount = models[r].participantCount

\* C15: startTrainingRound fails whenever the current round is open; once
\* aggregateModel succeeded for round r, r is terminal (never active again,
\* never aggregated again), the round counter is r + 1 and a
\* startTrainingRound with valid parameters, made by an aggregator whose
\* reward pool the token transfers, succeeds at once.
C15_RoundLifecycle ==
    /\ [](StartRejectedWhileOpen /\ AggregatedIsTerminal /\ AggregatedEnablesNext)
    /\ [][AggregatedStays]_vars

\* Round 2 was opened after round 1 had been aggregated.
C15_Witness ==
    /\ last.op = "startTrainingRound"
    /\ currentRound = 2 /\ trainingRounds[2].isActive
    /\ 1 \in AggregatedRounds /\ ~trainingRounds[1].isActive

\* The stage of an identity in the lender lifecycle.
LenderStage(l) ==
    IF ~lenders[l].isActive /\ ~lenders[l].isApproved THEN "Unregistered"
    ELSE IF lenders[l].isActive /\ ~lenders[l].isApproved /\ pendingApprovals[l] THEN "Pending"
    ELSE IF lenders[l].isActive /\ lenders[l].isApproved /\ ~pendingApprovals[l] THEN "Approved"
    ELSE "Other"

\* What each stage allows: a registered identity cannot register again,
\* approval is accepted exactly for a pending lender and an admin caller, and
\* an identity that is not approved gets no API grant and submits nothing.
LifecycleGuards ==
    \A l \in LPAddr :
        /\ LenderStage(l) # "Other"
        /\ LenderStage(l) # "Unregistered" =>
              \A x \in RegisterInputs : registerLenderErr(l, x[1], x[2], x[3]) # OK
        /\ \A c \in LPAddr :
              (approveLenderErr(c, l) = OK)
                  <=> (c \in lpRoles["DEFAULT_ADMIN_ROLE"] /\ LenderStage(l) = "Pending")
        /\ LenderStage(l) # "Approved" =>
              /\ \A t \in TierInputs : requestAPIAccessErr(l, t) # OK
              /\ \A x \in RequestInputs :
                    submitCreditRequestErr(l, x[1], x[2], apiRequestFee - x[3]) # OK
              /\ \A x \in BatchInputs :
                    submitBatchRequestErr(l, x[1], x[2], BatchValue(x)) # OK

\* The only moves are Unregistered -> Pending (by registerLender of that
\* identity) and Pending -> Approved (by approveLender).
LifecycleStep ==
    \A l \in LPAddr :
        LenderStage(l)' # LenderStage(l) =>
            \/ /\ LenderStage(l) = "Unregistered" /\ LenderStage(l)' = "Pending"
               /\ last'.op = "registerLender" /\ last'.caller = l
            \/ /\ LenderStage(l) = "Pending" /\ LenderStage(l)' = "Approved"
               /\ last'.op = "approveLender" /\ last'.args = <<l>>

\* C16: an identity moves only Unregistered -> Pending -> Approved:
\* registerLender succeeds at most once per identity, approveLender succeeds
\* only for a pending lender (a second approval fails), an approved lender
\* stays approved, and requestAPIAccess, submitCreditRequest and
\* submitBatchRequest fail for every identity that is not approved.
C16_LenderLifecycle == [](LifecycleGuards) /\ [][LifecycleStep]_vars

\* l1 has just been approved after registering; l2 never registered.
C16_Witness ==
    /\ last.op = "approveLender" /\ last.args = <<"l1">>
    /\ LenderStage("l1") = "Approved" /\ LenderStage("l2") = "Unregistered"

\* Every stored request is processed and carries its own id.
AllProcessed ==
    \A i \in 1..Len(creditRequests) :
        creditRequests[i].isProcessed /\ creditRequests[i].requestId = i

\* No step removes a stored request or changes one of its fields.
RequestsKept ==
    /\ Len(creditRequests') >= Len(creditRequests)
    /\ \A i \in 1..Len(creditRequests) : creditRequests'[i] = creditRequests[i]

\* C17: every stored credit request is processed (in the call that created
\* it) and no later step changes its lender, borrower, amount, approved
\* flag, score snapshot, risk tier, approved amount or rate.
C17_ProcessedRequestsImmutable == [](AllProcessed) /\ [][RequestsKept]_vars

\* A request was denied for lack of credit history; afterwards the borrower
\* received a score the portal may read, and the request still stands as
\* decided.
C17_Witness ==
    /\ Len(creditRequests) >= 1
    /\ creditRequests[1].borrower = "b1"
    /\ creditRequests[1].riskAssessment = "No Credit History"
    /\ scores["b1"].isActive /\ scores["b1"].score = 700 /\ PortalMayRead("b1")
    /\ last.op = "updateScore"

\* A batch with an invalid entry, lists of different lengths, more than 100
\* entries or a caller that is no oracle.
BatchScoresMustFail(c, x) ==
    \/ ~IsOracle(c)
    \/ Len(x[1]) # Len(x[2])
    \/ Len(x[1]) > 100
    \/ \E i \in 1..Len(x[1]) : i <= Len(x[2]) /\ (x[1][i] = ZERO \/ ~InRange(x[2][i]))

BatchScoresRejected ==
    \A c \in CSRAddr, x \in BatchScoreInputs :
        BatchScoresMustFail(c, x) => batchUpdateScoresErr(c, x[1], x[2]) # OK

\* A step made by batchUpdateScores that changes a score record comes from
\* an oracle's batch whose every entry is valid, and writes only the listed
\* identities.
BatchScoresStep ==
    (last'.op = "batchUpdateScores" /\ scores' # scores) =>
        LET users == last'.args[1]
            newScores == last'.args[2]
        IN /\ IsOracle(last'.caller)
           /\ Len(users) = Len(newScores) /\ Len(users) <= 100
           /\ \A i \in 1..Len(users) : users[i] # ZERO /\ InRange(newScores[i])
           /\ \A u \in CSRAddr :
                 (\A i \in 1..Len(users) : users[i] # u) => scores'[u] = scores[u]

\* C18: batchUpdateScores is all-or-nothing: a batch with an invalid entry
\* (score outside [300,850] or null identity), with lists of different
\* lengths, with more than 100 entries or from a caller that is no oracle is
\* rejected as a whole, and no score, version or timestamp changes, the
\* entries before the invalid one included.
C18_BatchUpdateAllOrNothing == [](BatchScoresRejected) /\ [][BatchScoresStep]_vars

\* A batch for b1 and b2 was written; the same batch with its second score
\* out of range is refused although its first entry is valid.
C18_Witness ==
    /\ last.op = "batchUpdateScores"
    /\ scores["b1"].version = 1 /\ scores["b2"].version = 1
    /\ batchUpdateScoresErr(Admin, <<"b1", "b2">>, <<300, 851>>) = "Invalid score"

\* Every active score lies in [300,850]; a record is active exactly when it
\* was written at least once.
ActiveScoresInRange ==
    \A u \in CSRAddr :
        /\ scores[u].isActive => InRange(scores[u].score)
        /\ scores[u].isActive <=> scores[u].version > 0

\* How often identity u occurs in a list of identities.
Occurrences(users, u) == Cardinality({i \in 1..Len(users) : users[i] = u})

\* No step lowers a version; a step that changes a score record is an
\* updateScore, which raises the version of its identity by one, or a
\* batchUpdateScores, which raises each identity's version by the number of
\* its occurrences in the list.
VersionStep ==
    /\ \A u \in CSRAddr : scores'[u].version >= scores[u].version
    /\ scores' # scores =>
          \/ /\ last'.op = "updateScore"
             /\ \A u \in CSRAddr :
                   scores'[u].version
                       = scores[u].version + (IF u = last'.args[1] THEN 1 ELSE 0)
          \/ /\ last'.op = "batchUpdateScores"
             /\ \A u \in CSRAddr :
                   scores'[u].version = scores[u].version + Occurrences(last'.args[1], u)

\* C19: in every reachable state every active score lies in [300,850], and
\* an identity's version never decreases: every successful update of the
\* identity, by updateScore or once per occurrence in a batchUpdateScores
\* list, raises its version by exactly one.
C19_ScoresInRangeAndVersioned == [](ActiveScoresInRange) /\ [][VersionStep]_vars

\* One batch that lists b1 twice took b1 from no score to version 2, and its
\* last entry is the score that stands.
C19_Witness ==
    /\ last.op = "batchUpdateScores" /\ last.args[1] = <<"b1", "b1">>
    /\ scores["b1"].version = 2 /\ scores["b1"].score = 850

\* The products listed so far.
Listed == 1..(nextProductId - 1)

\* Nobody but the seller reprices or deactivates a listed product, an admin
\* may always force-deactivate it, and an inactive product can be neither
\* bought nor repriced.
ProductGuards ==
    \A p \in Listed :
        /\ \A c \in DMAddr \ {products[p].seller} :
              /\ \A np \in {0, 40} : updateProductPriceErr(c, p, np) # OK
              /\ deactivateProductErr(c, p) # OK
        /\ \A c \in dmRoles["DEFAULT_ADMIN_ROLE"] : emergencyDeactivateProductErr(c, p) = OK
        /\ ~products[p].isActive =>
              \A c \in DMAddr :
                 /\ \A tokenOk \in BOOLEAN : purchaseProductErr(c, p, tokenOk) # OK
                 /\ \A np \in {0, 40} : updateProductPriceErr(c, p, np) # OK

\* A listed product keeps its seller, an inactive one stays inactive, a
\* price changes only by the seller's updateProductPrice and a product goes
\* inactive only by the seller's deactivateProduct or an admin's
\* emergencyDeactivateProduct.
ProductStep ==
    \A p \in Listed :
        /\ products'[p].seller = products[p].seller
        /\ ~products[p].isActive => ~products'[p].isActive
        /\ products'[p].price # products[p].price =>
              (last'.op = "updateProductPrice" /\ last'.caller = products[p].seller)
        /\ (products[p].isActive /\ ~products'[p].isActive) =>
              \/ last'.op = "deactivateProduct" /\ last'.caller = products[p].seller
              \/ /\ last'.op = "emergencyDeactivateProduct"
                 /\ last'.caller \in dmRoles["DEFAULT_ADMIN_ROLE"]

\* C20: only the original seller changes a listed product's price or
\* deactivates it through updateProductPrice / deactivateProduct, an admin
\* can force-deactivate any product at any time, and deactivation is
\* terminal: an inactive product is inactive in every later state and every
\* purchaseProduct and updateProductPrice on it fails.
C20_DeactivationTerminal == [](ProductGuards) /\ [][ProductStep]_vars

\* An admin has just taken a product off the shelf that was repriced by its
\* seller and sold once.
C20_Witness ==
    /\ last.op = "emergencyDeactivateProduct" /\ last.caller = Admin
    /\ ~products[1].isActive /\ products[1].price = 40 /\ products[1].totalSales = 1

\* The purchase record written by the most recent purchaseProduct.
LastPurchase == purchases[Len(purchases)]

\* The fee rate never exceeds 1000 basis points; and when purchaseProduct has
\* just committed, the fee sent to the fee recipient is the price times the
\* rate over 10000 rounded down, the seller is sent the price less the fee,
\* the two amounts add up to the recorded price and the seller's amount is
\* at least nine tenths of it.
PurchaseSplit ==
    /\ platformFeePercent <= 1000
    /\ last.op = "purchaseProduct" =>
          LET price == LastPurchase.price
              toSeller == last.transfers[1]
              toRecipient == last.transfers[2]
              platformFee == toRecipient[3]
              sellerAmount == toSeller[3]
          IN /\ Len(last.transfers) = 2
             /\ LastPurchase.purchaseId = last.ret
             /\ toSeller[1] = last.caller /\ toSeller[2] = LastPurchase.seller
             /\ toRecipient[1] = last.caller /\ toRecipient[2] = feeRecipient
             /\ platformFee * 10000 <= price * platformFeePercent
             /\ price * platformFeePercent < (platformFee + 1) * 10000
             /\ sellerAmount = price - platformFee
             /\ sellerAmount + platformFee = price
             /\ 10 * sellerAmount >= 9 * price

\* C21: on every successful purchaseProduct the platform fee is
\* floor(price * feeBps / 10000), the seller receives the price less that
\* fee, the two transfers sum to the price recorded in the Purchase, and as
\* the fee rate is at most 1000 basis points in every reachable state the
\* seller receives at least 90% of the price.
C21_FeeSplitExact == PurchaseSplit

\* A purchase whose fee is not a whole number before truncation: price 100
\* at 250 basis points gives 2.5, of which 2 are charged.
C21_Witness ==
    /\ last.op = "purchaseProduct"
    /\ (LastPurchase.price * platformFeePercent) % 10000 # 0
    /\ last.transfers[2][3] > 0

\* A registered node cannot register again, a node that never registered has
\* reputation 0, and no reputation is below 0 or above what one accepting
\* verdict per started round can add to the starting 100.
ReputationBounded ==
    \A n \in FLAddr :
        /\ nodes[n].isActive => registerNodeErr(n) # OK
        /\ ~nodes[n].isActive => nodes[n].reputation = 0
        /\ nodes[n].reputation >= 0
        /\ nodes[n].reputation <= 100 + 10 * currentRound

\* Registration sets the reputation to 100; a committed verdict on n adds 10
\* when accepting and takes 20, stopping at 0, when rejecting; nothing else
\* changes a reputation.
ReputationStep ==
    \A n \in FLAddr :
        LET old == nodes[n].reputation
            new == nodes'[n].reputation
            verdictOnN == /\ last'.op = "validateModelUpdate" /\ last'.args[1] = n
                          /\ validations' # validations
        IN /\ (~nodes[n].isActive /\ nodes'[n].isActive) =>
                 (last'.op = "registerNode" /\ last'.caller = n /\ new = 100)
           /\ (verdictOnN /\ last'.args[2]) => new = old + 10
           /\ (verdictOnN /\ ~last'.args[2]) =>
                 (new = (IF old >= 20 THEN old - 20 ELSE 0) /\ new <= old)
           /\ new # old => (verdictOnN \/ (last'.op = "registerNode" /\ ~nodes[n].isActive))

\* C22: a node's reputation is 100 after its one-time registerNode (a second
\* registerNode fails), rises by exactly 10 on an accepting validation and
\* falls by 20 on a rejecting one, floored at 0, so reputation is never
\* negative and never wraps around in any reachable state.
C22_ReputationFloored == [](ReputationBounded) /\ [][ReputationStep]_vars

\* n1 was accepted in round 1 (110) and then rejected in round 2 until the
\* floor cut the last penalty short: 90, 70, 50, 30, 10, 0.
C22_Witness ==
    /\ last.op = "validateModelUpdate" /\ last.args = <<"n1", FALSE>>
    /\ trainingRounds[1].updates["n1"].isValidated
    /\ currentRound = 2 /\ validations[2]["n1"] = 6
    /\ nodes["n1"].reputation = 0

\* A committed validateModelUpdate, whatever its verdict, leaves every
\* round's participant count and participant set as they were.
VerdictKeepsParticipants ==
    (last'.op = "validateModelUpdate" /\ validations' # validations) =>
        \A r \in RoundIds :
            /\ trainingRounds'[r].currentParticipants = trainingRounds[r].currentParticipants
            /\ trainingRounds'[r].participants = trainingRounds[r].participants

\* An open round past its end whose submissions reach the quorum is
\* aggregated by any aggregator offering a valid model, whatever verdicts
\* its updates were given.
QuorumCountsSubmissions ==
    \A r \in RoundIds :
        (/\ trainingRounds[r].isActive
         /\ now > trainingRounds[r].endTime
         /\ Cardinality(trainingRounds[r].participants) >= trainingRounds[r].minParticipants)
        => \A c \in flRoles["AGGREGATOR_ROLE"] : aggregateModelErr(c, r, HASH, 10000) = OK

\* C23: validateModelUpdate with either verdict leaves the round's participant
\* count and participant set unchanged: a rejected update still counts toward
\* the quorum, so a round with at least minParticipants submissions can be
\* aggregated after its end even if every update was rejected.
C23_RejectedStillCounts == [](QuorumCountsSubmissions) /\ [][VerdictKeepsParticipants]_vars

\* Round 1 was aggregated with one participant whose only update had been
\* rejected and never accepted.
C23_Witness ==
    /\ last.op = "aggregateModel" /\ last.args[1] = 1
    /\ trainingRounds[1].participants = {"n1"}
    /\ validations[1]["n1"] >= 1
    /\ ~trainingRounds[1].updates["n1"].isValidated
    /\ nodes["n1"].reputation < 100
    /\ models[1].isActive /\ models[1].participantCount = 1

\* What the claim says a committed aggregateModel credits: every participant
\* of the round pool / count, the shares together no more than the pool.
EqualSplitCredited ==
    (last'.op = "aggregateModel" /\ currentRound' # currentRound) =>
        LET round == trainingRounds[last'.args[1]]
            share == IF round.currentParticipants > 0
                     THEN round.rewardPool \div round.currentParticipants ELSE 0
        IN /\ \A n \in round.participants :
                 nodes'[n].totalRewards = nodes[n].totalRewards + share
           /\ share * round.currentParticipants <= round.rewardPool

\* C24: aggregateModel distributes the round's reward pool as an equal split:
\* each of the participants recorded at aggregation time is credited
\* rewardPool / participantCount, and the total credited never exceeds the
\* reserved pool.
C24_EqualSplitCredited == [][EqualSplitCredited]_vars

\* The usage a grant counts from once an expired window is reset on use.
UsageAfterReset(access) == IF now >= access.resetTime THEN 0 ELSE access.requestsUsed

\* What the claim says of a well-formed, paid batch of an approved lender
\* holding a grant: it is accepted exactly when the usage, reset if the
\* window expired, plus the batch size stays within the limit.
BatchQuotaAsSingle ==
    \A c \in LPAddr, x \in BatchInputs :
        LET n == Len(x[1])
            value == apiRequestFee * n - x[3]
        IN (/\ c \in lpRoles["APPROVED_LENDER_ROLE"]
            /\ Len(x[2]) = n /\ n <= MAX_BATCH
            /\ value >= apiRequestFee * n
            /\ apiAccess[c].hasAccess)
           => (submitBatchRequestErr(c, x[1], x[2], value) = OK
                  <=> UsageAfterReset(apiAccess[c]) + n <= apiAccess[c].requestLimit)

\* ... and an accepted batch leaves the usage at the reset usage plus its size.
BatchQuotaStep ==
    (last'.op = "submitBatchRequest" /\ nextBatchId' # nextBatchId) =>
        LET c == last'.caller
        IN apiAccess'[c].requestsUsed
              = UsageAfterReset(apiAccess[c]) + Len(last'.args[1])

\* C25: submitBatchRequest applies the same quota rules as submitCreditRequest:
\* an expired quota window is reset on use, and a batch of n pairs is accepted
\* exactly when the (possibly reset) usage plus n does not exceed the limit,
\* after which usage has grown by exactly n.
C25_BatchQuotaAsSingle == [](BatchQuotaAsSingle) /\ [][BatchQuotaStep]_vars

\* ====================================================================
\*  Properties of the CreditScoreRegistry: access and consent
\* ====================================================================

\* The lenders on a user's authorized-lender list, in a consents table.
AuthorizedIn(table, u) == {table[u].authorizedLenders[i] :
                              i \in 1..Len(table[u].authorizedLenders)}
Authorized(u) == AuthorizedIn(consents, u)

\* For every user u and lender l: granting again what is granted fails,
\* revoking what is not granted fails, the authorized-lender list holds
\* exactly the granted lenders, each once, and a lender that is not granted,
\* is not u and holds no lender role cannot read u's score.
AccessGuards ==
    \A u \in CSRAddr :
        /\ Cardinality(Authorized(u)) = Len(consents[u].authorizedLenders)
        /\ \A l \in CSRAddr :
              /\ lenderAccess[u][l] => grantLenderAccessErr(u, l) # OK
              /\ ~lenderAccess[u][l] => revokeLenderAccessErr(u, l) # OK
              /\ lenderAccess[u][l] <=> l \in Authorized(u)
              /\ (~lenderAccess[u][l] /\ l # u /\ l \notin csrRoles["LENDER_ROLE"])
                    => getScoreErr(l, u) # OK

\* A committed revokeLenderAccess(l) by u takes l, and only l, off u's list
\* and out of u's grants; a grant appears only by u's own grantLenderAccess.
AccessStep ==
    /\ (last'.op = "revokeLenderAccess" /\ lenderAccess' # lenderAccess) =>
          LET u == last'.caller
              l == last'.args[1]
          IN /\ lenderAccess[u][l] /\ ~lenderAccess'[u][l]
             /\ AuthorizedIn(consents', u) = AuthorizedIn(consents, u) \ {l}
             /\ Len(consents'[u].authorizedLenders) = Len(consents[u].authorizedLenders) - 1
    /\ \A u, l \in CSRAddr :
          (~lenderAccess[u][l] /\ lenderAccess'[u][l]) =>
              (last'.op = "grantLenderAccess" /\ last'.caller = u /\ last'.args[1] = l)

\* C26: grantLenderAccess(l) fails if the caller has already granted l and
\* revokeLenderAccess(l) fails if l is not currently granted; after a
\* successful revoke, l is removed from the caller's authorized-lender list
\* and (unless l holds the lender role or is the user) getScore by l fails
\* until access is granted again.
C26_GrantRevokeGuarded == [](AccessGuards) /\ [][AccessStep]_vars

\* b1 granted l1 and then o1, and has just revoked l1: the list's last
\* element took l1's place, and l1, holding no lender role, cannot read b1's
\* active score any more.
C26_Witness ==
    /\ last.op = "revokeLenderAccess" /\ last.caller = "b1" /\ last.args[1] = "l1"
    /\ consents["b1"].authorizedLenders = <<"o1">>
    /\ scores["b1"].isActive
    /\ getScoreErr("l1", "b1") = "Unauthorized access"
    /\ getScoreErr("o1", "b1") = OK

\* ====================================================================
\*  Properties of the LenderPortal: lookup failure, access levels
\* ====================================================================

\* A submission that meets the portal's own requirements is accepted whether
\* or not the registry would answer the portal's score lookup.
LookupFailureDoesNotAbort ==
    \A c \in LPAddr, x \in RequestInputs :
        LET value == apiRequestFee - x[3]
        IN (/\ c \in lpRoles["APPROVED_LENDER_ROLE"]
            /\ value >= apiRequestFee /\ x[1] # ZERO /\ x[2] > 0
            /\ apiAccess[c].hasAccess
            /\ apiAccess[c].requestsUsed < apiAccess[c].requestLimit
            /\ getScoreErr(Portal, x[1]) # OK)
           => submitCreditRequestErr(c, x[1], x[2], value) = OK

\* A committed submitCreditRequest whose score lookup failed returns the new
\* request's id; the request is stored processed, denied, with score 0 and
\* tier "No Credit History"; the lender's usage in the current window (counted
\* from 0 when the window had expired) and totalRequests grow by 1 and its
\* successfulRequests stays.
LookupFailureStep ==
    (/\ last'.op = "submitCreditRequest" /\ nextRequestId' # nextRequestId
     /\ getScoreErr(Portal, last'.args[1]) # OK)
    => LET c == last'.caller
           id == last'.ret
           request == creditRequests'[id]
       IN /\ id = nextRequestId /\ Len(creditRequests') = id
          /\ request.requestId = id /\ request.lender = c
          /\ request.borrower = last'.args[1] /\ request.requestedAmount = last'.args[2]
          /\ request.isProcessed /\ ~request.isApproved
          /\ request.riskAssessment = "No Credit History"
          /\ request.creditScore = 0 /\ request.approvedAmount = 0
          /\ apiAccess'[c].requestsUsed = UsageAfterReset(apiAccess[c]) + 1
          /\ lenders'[c].totalRequests = lenders[c].totalRequests + 1
          /\ lenders'[c].successfulRequests = lenders[c].successfulRequests

KnownTiers == {"basic", "premium", "enterprise"}
ClaimedQuota(tier) ==
    CASE tier = "basic" -> 100
      [] tier = "premium" -> 1000
      [] tier = "enterprise" -> 10000

\* requestAPIAccess is accepted only from an approved lender naming a known
\* access level, and from every such lender.
AccessLevelGuards ==
    \A c \in LPAddr, tier \in TierInputs :
        requestAPIAccessErr(c, tier) = OK <=> (lenders[c].isApproved /\ tier \in KnownTiers)

\* A committed requestAPIAccess(tier) leaves the caller a grant with the
\* tier's quota, usage 0 and a window ending thirty days from now; nothing
\* else replaces a grant's quota or access level, so a call naming an unknown
\* level leaves the existing grant as it was.
AccessLevelStep ==
    /\ (last'.op = "requestAPIAccess" /\ (last' # last \/ apiAccess' # apiAccess)) =>
          LET c == last'.caller
              tier == last'.args[1]
          IN /\ tier \in KnownTiers /\ lenders[c].isApproved
             /\ apiAccess'[c] = [lender |-> c, hasAccess |-> TRUE,
                                 requestLimit |-> ClaimedQuota(tier), requestsUsed |-> 0,
                                 resetTime |-> now + THIRTY_DAYS, accessLevel |-> tier]
             /\ \A d \in LPAddr \ {c} : apiAccess'[d] = apiAccess[d]
    /\ \A c \in LPAddr :
          (\/ apiAccess'[c].requestLimit # apiAccess[c].requestLimit
           \/ apiAccess'[c].accessLevel # apiAccess[c].accessLevel
           \/ apiAccess'[c].hasAccess # apiAccess[c].hasAccess)
          => (/\ last'.op = "requestAPIAccess" /\ last'.caller = c
              /\ last'.args[1] \in KnownTiers)

\* C28: requestAPIAccess succeeds only for an approved lender and a known
\* tier, setting the quota to 100 for basic, 1000 for premium and 10000 for
\* enterprise, usage to 0 and a new fixed-duration window; an unknown tier
\* fails and leaves the lender's existing grant (quota, usage, window)
\* unchanged.
C28_AccessLevelQuota == [](AccessLevelGuards) /\ [][AccessLevelStep]_vars

\* A lender that had used its grant asked for the enterprise level one window
\* later: quota 10000, usage back at 0, and a window of thirty days from then.
C28_Witness ==
    /\ last.op = "requestAPIAccess" /\ last.args = <<"enterprise">>
    /\ lenders["l1"].totalRequests > 0
    /\ apiAccess["l1"].requestLimit = 10000 /\ apiAccess["l1"].requestsUsed = 0
    /\ now = THIRTY_DAYS /\ apiAccess["l1"].resetTime = 2 * THIRTY_DAYS

\* No identity can set a consent that expires now or earlier, and a consent
\* is valid exactly when its identity has given one (its nonce counts the
\* accepted updateConsent calls) and the stored expiry is still ahead.
ConsentGuards ==
    \A u \in CSRAddr :
        /\ \A h \in {HASH, HASH2}, e \in 0..now : updateConsentErr(u, h, e) # OK
        /\ isConsentValid(u) <=> (userNonces[u] > 0 /\ now < consents[u].expiryTime)

\* A committed updateConsent(hash, expiry) had expiry > now and leaves the
\* caller's consent with that hash and expiry in place of the earlier ones;
\* the stored hash and expiry change in no other way.
ConsentStep ==
    /\ (last'.op = "updateConsent" /\ userNonces' # userNonces) =>
          LET u == last'.caller
          IN /\ last'.args[2] > now
             /\ consents'[u].dataHash = last'.args[1]
             /\ consents'[u].expiryTime = last'.args[2]
             /\ consents'[u].timestamp = now
             /\ consents'[u].isActive
             /\ consents'[u].authorizedLenders = consents[u].authorizedLenders
             /\ userNonces'[u] = userNonces[u] + 1
    /\ \A u \in CSRAddr :
          (\/ consents'[u].dataHash # consents[u].dataHash
           \/ consents'[u].expiryTime # consents[u].expiryTime
           \/ consents'[u].isActive # consents[u].isActive)
          => (last'.op = "updateConsent" /\ last'.caller = u)

\* C29: updateConsent succeeds only when the expiry is strictly later than
\* the current time (expiry = now fails) and replaces the caller's previous
\* consent hash and expiry; isConsentValid(u) is true exactly while u has
\* given consent and now < the stored expiry, and becomes false once the
\* expiry is reached without any further call.
C29_ConsentExpires == [](ConsentGuards) /\ [][ConsentStep]_vars

\* b1 replaced its first consent by one with the other hash expiring at 3;
\* time then reached 3 with no call in between, and the consent is no longer
\* valid.
C29_Witness ==
    /\ last.op = "updateConsent" /\ last.caller = "b1" /\ last.args = <<HASH2, 3>>
    /\ userNonces["b1"] = 2
    /\ consents["b1"].dataHash = HASH2 /\ consents["b1"].expiryTime = 3
    /\ consents["b1"].timestamp = 1
    /\ now = 3 /\ ~isConsentValid("b1")

\* ====================================================================
\*  Properties of calls in flight
\* ====================================================================

\* The entry points with an invocation in flight.
InFlight == {frames[i].op : i \in 1..Len(frames)}

\* No two recorded purchases share buyer and product.
NoDoublePurchase ==
    \A i, j \in 1..Len(purchases) :
        (purchases[i].buyer = purchases[j].buyer
            /\ purchases[i].productId = purchases[j].productId) => i = j

\* Only purchaseProduct and submitCreditRequest are ever in flight, each at
\* most once; while one is, every further call of it is rejected, whoever
\* makes it; no purchase is recorded twice, and every counter stands at the
\* number of calls it counted.
ReentryGuards ==
    /\ InFlight \subseteq {"purchaseProduct", "submitCreditRequest"}
    /\ Cardinality(InFlight) = Len(frames)
    /\ "purchaseProduct" \in InFlight <=> dmStatus = ENTERED
    /\ "purchaseProduct" \in InFlight =>
          \A c \in DMAddr, p \in ProductIds, tokenOk \in BOOLEAN :
              purchaseProductEnterErr(c, p, tokenOk) # OK
    /\ "submitCreditRequest" \in InFlight =>
          \A c \in LPAddr, x \in RequestInputs :
              submitCreditRequestEnterErr(c, x[1], x[2], apiRequestFee - x[3]) # OK
    /\ NoDoublePurchase
    /\ nextPurchaseId = Len(purchases) + 1
    /\ nextRequestId = Len(creditRequests) + 1
    /\ totalRounds = currentRound - 1
    /\ \A r \in RoundIds :
          trainingRounds[r].currentParticipants = Cardinality(trainingRounds[r].participants)

\* No step advances a counter by more than one, and a purchase is recorded
\* only as the invocation in flight for that buyer and product returns.
ReentryStep ==
    /\ nextPurchaseId' \in {nextPurchaseId, nextPurchaseId + 1}
    /\ nextRequestId' \in {nextRequestId, nextRequestId + 1}
    /\ totalRounds' \in {totalRounds, totalRounds + 1}
    /\ currentRound' \in {currentRound, currentRound + 1}
    /\ \A r \in RoundIds :
          trainingRounds'[r].currentParticipants
              \in {trainingRounds[r].currentParticipants,
                   trainingRounds[r].currentParticipants + 1}
    /\ \A c \in LPAddr :
          lenders'[c].totalRequests \in {lenders[c].totalRequests, lenders[c].totalRequests + 1}
    /\ Len(purchases') # Len(purchases) =>
          /\ Len(purchases') = Len(purchases) + 1
          /\ Len(frames') = Len(frames) - 1
          /\ LET f == frames[Len(frames)]
             IN /\ f.op = "purchaseProduct"
                /\ purchases'[Len(purchases')].buyer = f.caller
                /\ purchases'[Len(purchases')].productId = f.productId

\* C30: each of the entry points purchaseProduct, submitCreditRequest,
\* aggregateModel and submitModelUpdate rejects a re-entrant call made while
\* an invocation of it is still in flight (for example from the payment token
\* called in the middle of purchaseProduct), so no interleaving records two
\* purchases for one (buyer, product) or advances a counter twice for one call.
C30_NoReentry == [](ReentryGuards) /\ [][ReentryStep]_vars

\* b1's purchase of product 1 is waiting for the payment token: nothing is
\* recorded yet, so only the guard stands between b1 and a second purchase.
C30_Witness ==
    /\ Len(frames) = 1
    /\ frames[1].op = "purchaseProduct" /\ frames[1].caller = "b1"
    /\ dmStatus = ENTERED
    /\ ~hasPurchased["b1"][1] /\ products[1].isActive
    /\ purchaseProductEnterErr("b1", 1, TRUE) = "ReentrancyGuard: reentrant call"

\* ====================================================================
\*  Properties of the system as a whole
\* ====================================================================

\* The places at which an id stands in the id lists kept per identity.
PlacesOf(lists, addrs, id) ==
    {<<a, i>> \in addrs \X (1..(MaxIdRequests + 1)) : i <= Len(lists[a]) /\ lists[a][i] = id}

\* Every counter stands one above the number of records made, the k-th record
\* of each kind carries id k, ids not yet given out name no product, and every
\* id given out is listed once, under the identity that made the record.
IdsAssigned ==
    /\ nextRequestId = Len(creditRequests) + 1
    /\ nextBatchId = Len(batchRequests) + 1
    /\ nextPurchaseId = Len(purchases) + 1
    /\ nextProductId >= 1
    /\ \A i \in 1..Len(creditRequests) :
          /\ creditRequests[i].requestId = i
          /\ PlacesOf(lenderRequests, LPAddr, i) # {}
          /\ \A x \in PlacesOf(lenderRequests, LPAddr, i) :
                /\ x[1] = creditRequests[i].lender
                /\ PlacesOf(lenderRequests, LPAddr, i) = {x}
    /\ \A i \in 1..Len(batchRequests) : batchRequests[i].batchId = i
    /\ \A i \in 1..Len(purchases) :
          /\ purchases[i].purchaseId = i
          /\ \E k \in 1..Len(userPurchases[purchases[i].buyer]) :
                userPurchases[purchases[i].buyer][k] = i
    /\ \A p \in ProductIds :
          /\ (p >= 1 /\ p < nextProductId) =>
                (products[p].productId = p
                    /\ PlacesOf(sellerProducts, DMAddr, p) = { <<products[p].seller, p>> })
          /\ (p = 0 \/ p >= nextProductId) => products[p] = EmptyProduct

\* No counter ever goes back; a committed call returns the id its counter
\* held, and a committed batch gives its items the next ids one after the
\* other in the order of its lists.
IdsStep ==
    /\ nextRequestId' >= nextRequestId /\ nextBatchId' >= nextBatchId
    /\ nextPurchaseId' >= nextPurchaseId /\ nextProductId' >= nextProductId
    /\ nextProductId' # nextProductId =>
          (nextProductId' = nextProductId + 1 /\ last'.op = "listProduct"
              /\ last'.ret = nextProductId)
    /\ nextPurchaseId' # nextPurchaseId =>
          (nextPurchaseId' = nextPurchaseId + 1 /\ last'.op = "purchaseProduct"
              /\ last'.ret = nextPurchaseId)
    /\ nextBatchId' # nextBatchId =>
          (/\ nextBatchId' = nextBatchId + 1 /\ last'.op = "submitBatchRequest"
           /\ last'.ret = nextBatchId
           /\ LET n == Len(last'.args[1])
              IN /\ nextRequestId' = nextRequestId + n
                 /\ \A k \in 1..n :
                       LET request == creditRequests'[nextRequestId + (k - 1)]
                       IN /\ request.requestId = nextRequestId + (k - 1)
                          /\ request.borrower = last'.args[1][k]
                          /\ request.requestedAmount = last'.args[2][k])
    /\ (nextRequestId' # nextRequestId /\ nextBatchId' = nextBatchId) =>
          (nextRequestId' = nextRequestId + 1 /\ last'.op = "submitCreditRequest"
              /\ last'.ret = nextRequestId)
    /\ \A i \in 1..Len(creditRequests) : creditRequests'[i].requestId = creditRequests[i].requestId

\* C31: request, batch, product and purchase ids are assigned from counters
\* that start at 1 and only increase: every new record gets the next unused
\* id, no id is ever assigned twice (single and batch credit requests share
\* one request-id sequence), and the requests created by one batch receive
\* consecutive ids in the order of the input list.
C31_IdsFromCounters == [](IdsAssigned) /\ [][IdsStep]_vars

\* A single request took id 1, a batch of two then gave b1 id 2 and b2 id 3,
\* and another single request took id 4; both products are listed and sold.
C31_Witness ==
    /\ last.op = "submitCreditRequest" /\ last.ret = 4
    /\ Len(batchRequests) = 1 /\ nextBatchId = 2
    /\ creditRequests[2].borrower = "b1" /\ creditRequests[2].requestedAmount = 1001
    /\ creditRequests[3].borrower = "b2" /\ creditRequests[3].requestedAmount = 1002
    /\ lenderRequests["l1"] = <<1, 2, 3, 4>>
    /\ nextProductId = 3 /\ nextPurchaseId > 2

\* C32: every successful state-mutating call appends at least one event to
\* the event log, including validateModelUpdate with verdict true,
\* updatePlatformFee, updateFeeRecipient, the fee setters of the lender portal
\* and the role-granting and pause operations of the registry: a step that
\* changes the state other than by the passing of time is a committed call,
\* and the call it commits has logged an event.
C32_EveryCallEmits == [][now' = now => Len(last'.events) >= 1]_vars

\* The open round's end time has passed with fewer participants than its minimum.
QuorumMissed ==
    LET round == trainingRounds[currentRound]
    IN /\ round.isActive
       /\ now > round.endTime
       /\ round.currentParticipants < round.minParticipants

\* Once the quorum is missed no aggregateModel (of any round), submitModelUpdate
\* or startTrainingRound is accepted, whoever calls and whatever is passed.
QuorumMissedGuards ==
    QuorumMissed =>
        /\ \A x \in AggregateCalls : aggregateModelErr(x[1], x[2], x[3], x[4]) # OK
        /\ \A c \in FLAddr, u \in UpdateInputs : submitModelUpdateErr(c, u[1], u[2], u[3]) # OK
        /\ \A c \in FLAddr, p \in RoundParams, q \in PoolInputs :
              startTrainingRoundErr(c, p[1], p[2], p[3], q[1], q[2]) # OK

\* No step leads out of it: the round stays open and short of its quorum, and
\* neither counter moves.
QuorumMissedStep ==
    QuorumMissed =>
        /\ QuorumMissed'
        /\ trainingRounds'[currentRound].isActive
        /\ trainingRounds'[currentRound].currentParticipants
              = trainingRounds[currentRound].currentParticipants
        /\ currentRound' = currentRound
        /\ totalRounds' = totalRounds

\* C33: if a round's end time passes while its participant count is below
\* minParticipants, the coordinator is stuck for good: the round stays marked
\* active in every later state, every subsequent aggregateModel,
\* submitModelUpdate and startTrainingRound fails, and the round counter
\* never advances.
C33_StuckBelowQuorum == [](QuorumMissedGuards) /\ [][QuorumMissedStep]_vars

\* The first round, opened for two participants, is three ticks past its end
\* with one update, which has had a verdict.
C33_Witness ==
    /\ QuorumMissed
    /\ currentRound = 1 /\ totalRounds = 0
    /\ trainingRounds[1].minParticipants = 2 /\ trainingRounds[1].currentParticipants = 1
    /\ now = trainingRounds[1].endTime + 3
    /\ last.op = "validateModelUpdate"

\* The risk tiers a request decided from a score can carry.
ScoredTiers == {"Low Risk", "Medium Risk", "High Risk"}

\* A committed submitCreditRequest for a borrower with an active score carries
\* that score and one of the scored tiers exactly when the portal's own
\* address may read it, and no credit history otherwise, whatever the
\* registry grants the submitting lender.
LookupAsPortalStep ==
    (/\ last'.op = "submitCreditRequest" /\ nextRequestId' # nextRequestId
     /\ scores[last'.args[1]].isActive)
    => LET borrower == last'.args[1]
           request == creditRequests'[nextRequestId]
       IN /\ request.lender = last'.caller /\ request.borrower = borrower
          /\ PortalMayRead(borrower) =>
                (request.creditScore = scores[borrower].score
                    /\ request.riskAssessment \in ScoredTiers)
          /\ ~PortalMayRead(borrower) =>
                (/\ request.creditScore = 0 /\ ~request.isApproved
                 /\ request.riskAssessment = "No Credit History")

C35_RequestsWellFormed ==
    \A i \in 1..Len(creditRequests) :
        creditRequests[i].requestedAmount > 0 /\ creditRequests[i].borrower # ZERO

\* The stored requests of a lender, and those of them that are approved.
RequestsOf(l) == {i \in 1..Len(creditRequests) : creditRequests[i].lender = l}
ApprovedOf(l) == {i \in RequestsOf(l) : creditRequests[i].isApproved}

\* C36: at the end of every transaction, for every lender: totalRequests
\* equals the number of credit requests recorded for that lender (single and
\* batch), successfulRequests equals the number of those requests that are
\* approved, and successfulRequests <= totalRequests.
C36_LenderCounters ==
    \A l \in LPAddr :
        /\ lenders[l].totalRequests = Cardinality(RequestsOf(l))
        /\ lenders[l].totalRequests = Len(lenderRequests[l])
        /\ lenders[l].successfulRequests = Cardinality(ApprovedOf(l))
        /\ lenders[l].successfulRequests <= lenders[l].totalRequests

\* One single request and one batch of two are on file for l1; two of the
\* three requests are approved, one of them in the batch.
C36_Witness ==
    /\ Len(batchRequests) = 1 /\ Len(batchRequests[1].borrowers) = 2
    /\ lenders["l1"].totalRequests = 3 /\ lenders["l1"].successfulRequests = 2
    /\ \E i \in ApprovedOf("l1") : i > 1 /\ Len(creditRequests) = 3
    /\ creditRequests[1].isApproved

\* Every identity stands on a user's authorized-lender list once if the user's
\* access flag for it is set and not at all if it is not.
ListMatchesFlags ==
    \A u, l \in CSRAddr :
        Occurrences(consents[u].authorizedLenders, l) = (IF lenderAccess[u][l] THEN 1 ELSE 0)

\* A committed updateConsent changes neither a list nor a flag, and a list
\* changes only by its owner's grantLenderAccess or revokeLenderAccess.
ConsentKeepsListStep ==
    /\ userNonces' # userNonces =>
          (/\ last'.op = "updateConsent"
           /\ lenderAccess' = lenderAccess
           /\ \A u \in CSRAddr :
                 consents'[u].authorizedLenders = consents[u].authorizedLenders)
    /\ \A u \in CSRAddr :
          consents'[u].authorizedLenders # consents[u].authorizedLenders =>
              (last'.op \in {"grantLenderAccess", "revokeLenderAccess"} /\ last'.caller = u)

\* C37: after any sequence of grantLenderAccess, revokeLenderAccess and
\* updateConsent calls, a user's authorized-lender list contains no duplicates
\* and holds exactly the lenders whose access flag for that user is true;
\* updateConsent leaves the list and the access flags unchanged.
C37_ListMatchesFlags == [](ListMatchesFlags) /\ [][ConsentKeepsListStep]_vars

\* b1, with o1 and l1 on the list in that order, has just recorded a consent.
C37_Witness ==
    /\ last.op = "updateConsent" /\ last.caller = "b1"
    /\ consents["b1"].isActive /\ userNonces["b1"] = 1
    /\ consents["b1"].authorizedLenders = <<"o1", "l1">>
    /\ lenderAccess["b1"]["o1"] /\ lenderAccess["b1"]["l1"]

\* ====================================================================
\*  Properties of the coordinator's round counters
\* ====================================================================

\* The round counter stands one above the number of aggregated rounds, no
\* other round is open, the aggregated rounds are 1..totalRounds, and
\* getCurrentModel answers with the model of round totalRounds or, with
\* nothing aggregated, fails.
RoundCounters ==
    /\ currentRound = totalRounds + 1
    /\ \A r \in RoundIds : trainingRounds[r].isActive => r = currentRound
    /\ AggregatedRounds = 1..totalRounds
    /\ totalRounds >= 1 =>
          (/\ getCurrentModelErr = OK
           /\ getCurrentModel = <<models[totalRounds].modelHash, totalRounds,
                                  models[totalRounds].accuracy>>
           /\ models[totalRounds].round = totalRounds)
    /\ totalRounds = 0 => getCurrentModelErr = "No active model found"

\* The number of aggregated rounds changes only by an aggregateModel, which
\* aggregates the round after the last one aggregated.
RoundCountersStep ==
    totalRounds' # totalRounds =>
        (/\ last'.op = "aggregateModel"
         /\ last'.args[1] = totalRounds + 1
         /\ totalRounds' = totalRounds + 1
         /\ AggregatedRounds' = AggregatedRounds \cup {totalRounds + 1})

\* C38: in every reachable state currentRound = totalRounds + 1, only the
\* round with id currentRound can be marked active, rounds are aggregated in
\* increasing id order with no gaps, and getCurrentModel returns the model of
\* round totalRounds when totalRounds >= 1 and fails when no round has been
\* aggregated.
C38_RoundCounters == [](RoundCounters) /\ [][RoundCountersStep]_vars

\* Round 2 has just been aggregated after round 1, and getCurrentModel
\* returns its model.
C38_Witness ==
    /\ last.op = "aggregateModel" /\ last.args[1] = 2
    /\ totalRounds = 2 /\ currentRound = 3
    /\ getCurrentModelErr = OK
    /\ getCurrentModel = <<last.args[2], 2, last.args[3]>>
    /\ ActiveModelFrom(1) = 0

\* The identities that reviewed a product.
ReviewersOf(productId) ==
    {productReviews[productId][i].reviewer : i \in 1..Len(productReviews[productId])}

\* C39: in every reachable state, for every product: every reviewer has
\* purchased the product, the seller is never among its reviewers or buyers,
\* reviewCount equals the number of stored reviews and is at most totalSales,
\* and the rating is 0 when reviewCount is 0 and otherwise lies in [100,500].
C39_ReviewsConsistent ==
    \A p \in ProductIds :
        LET product == products[p]
        IN /\ \A c \in ReviewersOf(p) : hasPurchased[c][p] /\ c \in BuyersOf(p)
           /\ product.seller \notin ReviewersOf(p)
           /\ product.seller \notin BuyersOf(p)
           /\ product.seller \in DMAddr => ~hasPurchased[product.seller][p]
           /\ product.reviewCount = Len(productReviews[p])
           /\ product.reviewCount <= product.totalSales
           /\ product.reviewCount = 0 => product.rating = 0
           /\ product.reviewCount > 0 => (product.rating >= 100 /\ product.rating <= 500)

\* Both buyers of product 1 reviewed it, with ratings 1 and 2: two sales, two
\* reviews, rating 150.
C39_Witness ==
    /\ last.op = "submitReview"
    /\ products[1].seller = "s1" /\ products[1].totalSales = 2
    /\ products[1].reviewCount = 2 /\ products[1].rating = 150
    /\ ReviewersOf(1) = {"b1", "b2"}

\* ====================================================================
\*  Properties of the registry's pause switch
\* ====================================================================

\* While paused, the six writing operations fail for every caller and input;
\* a read is answered exactly as its authorization and the score on file say;
\* pause and unpause fail for everyone but an admin.
PausedGuards ==
    /\ paused =>
          /\ \A c \in CSRAddr, u \in CSRAddr \cup {ZERO} :
                /\ \A sc \in ScoreInputs : updateScoreErr(c, u, sc) # OK
                /\ \A f \in FactorInputs : updateScoreFactorsErr(c, u, f) # OK
                /\ grantLenderAccessErr(c, u) # OK
                /\ revokeLenderAccessErr(c, u) # OK
          /\ \A c \in CSRAddr, x \in BatchScoreInputs : batchUpdateScoresErr(c, x[1], x[2]) # OK
          /\ \A c \in CSRAddr, h \in {HASH, ZEROHASH}, e \in {now, now + 1} :
                updateConsentErr(c, h, e) # OK
    /\ \A c \in CSRAddr, u \in CSRAddr \cup {ZERO} :
          getScoreErr(c, u) = OK <=> (u # ZERO /\ MayRead(c, u) /\ scores[u].isActive)
    /\ \A c \in CSRAddr \ csrRoles["DEFAULT_ADMIN_ROLE"] : pauseErr(c) # OK /\ unpauseErr(c) # OK

\* While not paused, the operations are accepted again from the callers and
\* with the inputs that meet their own requirements.
UnpausedAccepts ==
    ~paused =>
        /\ \A c \in csrRoles["ORACLE_ROLE"] :
              /\ updateScoreErr(c, "b1", 850) = OK
              /\ updateScoreFactorsErr(c, "b1", <<100, 100, 100, 100, 100>>) = OK
              /\ batchUpdateScoresErr(c, <<"b1", "b2">>, <<300, 850>>) = OK
        /\ updateConsentErr("b1", HASH, now + 1) = OK
        /\ \A l \in CSRAddr :
              IF lenderAccess["b1"][l] THEN revokeLenderAccessErr("b1", l) = OK
              ELSE grantLenderAccessErr("b1", l) = OK

\* A step taken while paused changes no score, factor, consent or grant unless
\* it is the unpause; the switch moves only by an admin's pause or unpause; a
\* read committed while paused was an authorized one, and neither pause nor
\* unpause changes the answer to any read.
PausedStep ==
    /\ (paused /\ paused') =>
          UNCHANGED <<scores, scoreFactors, consents, lenderAccess, userNonces>>
    /\ paused' # paused =>
          /\ last'.op = (IF paused THEN "unpause" ELSE "pause")
          /\ last'.caller \in csrRoles["DEFAULT_ADMIN_ROLE"]
          /\ UNCHANGED <<scores, scoreFactors, consents, lenderAccess, userNonces>>
          /\ \A c \in CSRAddr, u \in CSRAddr \cup {ZERO} : getScoreErr(c, u)' = getScoreErr(c, u)
    /\ (paused /\ last' # last /\ last'.op = "getScore") =>
          (MayRead(last'.caller, last'.args[1]) /\ last'.ret = scores[last'.args[1]].score)

\* C40: while the registry is paused, every call to updateScore,
\* updateScoreFactors, batchUpdateScores, updateConsent, grantLenderAccess and
\* revokeLenderAccess fails and leaves scores, factors, consents and access
\* grants unchanged, while score reads keep their normal authorization
\* behaviour; only an admin can pause or unpause, and after unpause the
\* operations succeed again.
C40_PauseBlocksWrites == [](PausedGuards /\ UnpausedAccepts) /\ [][PausedStep]_vars

\* The admin has just lifted a pause of a registry that holds a score and a
\* grant of b1: the oracle may write and b1 may revoke again.
C40_Witness ==
    /\ last.op = "unpause" /\ last.caller = Admin /\ ~paused
    /\ scores["b1"].isActive /\ lenderAccess["b1"]["l1"]
    /\ updateScoreErr(Admin, "b1", 850) = OK
    /\ revokeLenderAccessErr("b1", "l1") = OK
    /\ getScoreErr("l1", "b1") = OK

====
